---------------------------- MODULE Spec2Model ----------------------------
(***************************************************************************)
(* Samsoft Update Manager: the asynchronous task-execution and             *)
(* UI-synchronisation core of two of its variants.                         *)
(*                                                                         *)
(*   gated variant    src/samsoftupdate0.x.py                              *)
(*       message_queue, process_message_queue, _operation_wrapper and the  *)
(*       start requests (check_updates, download_updates, ...).            *)
(*       Specifications Spec, FairSpec; SpecClose adds the close request.  *)
(*                                                                         *)
(*   60-FPS variant   src/#####samsoftupdater9.21.25v0.py                  *)
(*       log_queue, ui_update_queue, update_ui, batch_log_update.          *)
(*       Specifications SpecFps, SpecFpsFault.                             *)
(*                                                                         *)
(*   operation bodies (all variants, and src/samsofthdrv0.py)              *)
(*       run_powershell, check_pswindowsupdate, ensure_module and the scan *)
(*       operation, run by one background thread.  Specification SpecScan. *)
(*       The offline install, toggle_auto_reboot and cleanup.              *)
(*       Specification SpecOffline.                                        *)
(*                                                                         *)
(* Each specification leaves the variables of the other parts untouched.   *)
(***************************************************************************)
EXTENDS Integers, Sequences, FiniteSets

\* ------------------------------------------------------------------ bounds

\* Number of start requests (button clicks) in one run of the gated variant;
\* each accepted click creates one background thread.
MaxThreads == 2

\* Number of log / progress events one operation body emits at most.
MaxEmit == 1

\* API calls (log / update_progress) the background thread of the 60-FPS
\* variant makes in one run.
MaxCalls == 3

\* Clicks on the "Performance Mode" checkbutton in one run.
MaxToggles == 1

\* Scan operations started in one run of the program.
MaxScans == 2

\* Update files found in the repository by one offline install.
MaxFiles == 3

\* Clicks on the "Auto-reboot" checkbutton in one run.
MaxFlips == 1

\* Clicks on the two buttons of program.py in one run.
MaxRuns == 3

\* "batch_size = 5" of the 60-FPS offline install, scaled down so that a run
\* has more than one batch.
BatchSize == 2

\* Batch cap of update_ui's log drain: "len(log_batch) < 50" in the source,
\* scaled down so that a queue longer than the cap is reachable.
LogBatchCap == 2

\* Lines the windowed redraw shows: "list(self.log_buffer)[-100:]" in the
\* source, scaled down.
VisibleLines == 3

\* deque(maxlen=LOG_BUFFER_SIZE): 1000 in the source, scaled down so that
\* eviction is reachable.
LOG_BUFFER_SIZE == 4

\* FPS_TARGET = 60;  FRAME_TIME = 1000 // FPS_TARGET  (milliseconds)
FPS_TARGET == 60

FRAME_TIME == 1000 \div FPS_TARGET

\* The budget of the UI-update phase, (FRAME_TIME * 0.8) / 1000 seconds, in
\* microseconds.
FrameBudget == FRAME_TIME * 800

\* Wall-clock time one step of a tick may take, in microseconds.
StepCosts == {0, 6400}

Threads == 1 .. MaxThreads

\* The producers of events on message_queue: the background threads.
Producers == Threads

\* The seven start requests of the gated variant; they share one guard and
\* one wrapper and differ only in the body handed to _operation_wrapper.
Operations ==
    {"check_updates", "download_updates", "install_updates", "install_offline",
     "update_office", "update_dotnet", "update_vcredist"}

\* The values an abstract operation body passes to update_progress.
ProgressValues == {0, 100}

\* No update_progress call yet.
NoProgress == -1

VARIABLES
    \* ---- gated variant
    message_queue,      \* queue.Queue of (msg_type, msg_data), oldest first
    running_operation,  \* self.running_operation
    buttons_enabled,    \* state of every button in self.buttons: normal / disabled
    log_text,           \* number of lines inserted into the log widget
    progress_var,       \* self.progress_var
    status_var,         \* self.status_var
    pc,                 \* position of each background thread in _operation_wrapper
    emitted,            \* events emitted so far by each thread's operation body
    ui_pc,              \* UI thread: "idle" in mainloop, "poll" inside process_message_queue
    pending_polls,      \* process_message_queue callbacks scheduled with root.after
    requests,           \* start requests made so far
    sent_n,             \* per producer: number of events put on message_queue
    handled_n,          \* per producer: sequence number of the last event handed to a handler
    last_progress,      \* per thread: the last value its body passed to update_progress
    raised,             \* per thread: its operation body raised an exception
    window,             \* the root window: "open", "asking" (quit dialog shown), "destroyed"
    \* ---- 60-FPS variant
    log_queue,          \* self.log_queue: log lines, oldest first
    ui_update_queue,    \* self.ui_update_queue: closures, oldest first
    log_buffer,         \* self.log_buffer: deque(maxlen=LOG_BUFFER_SIZE)
    fps_log_text,       \* lines in the log widget, oldest first
    perf_mode_var,      \* self.perf_mode_var
    fps_progress_var,   \* self.progress_var
    fps_status_var,     \* self.status_var
    fps_pc,             \* UI thread: "scheduled", "log_phase", "ui_phase", "toggle", "dead"
    log_batch,          \* update_ui's local log_batch
    elapsed,            \* time.time() - start_time of the running tick, microseconds
    w_pc,               \* background thread: "run", "log2" (inside log()), "done"
    calls_n,            \* per producer: API calls (log, update_progress) completed
    lines_n,            \* per producer: lines put on log_queue
    toggles,            \* clicks on the Performance Mode checkbutton so far
    taken_n,            \* per producer: number of the last line handed to batch_log_update
    applied_n,          \* per producer: number of the last closure taken from ui_update_queue
    shown_hi,           \* per producer: highest call number whose effect reached the display
    inversion,          \* an effect reached the display after a later one of the same producer
    buffered,           \* every line ever passed to log_buffer.extend, in order
    sink_faults,        \* exceptions raised by display sinks so far
    \* ---- operation bodies
    variant,            \* which source file runs: "gated", "fps" or "hdrv"
    pswindowsupdate_available,  \* self.pswindowsupdate_available
    s_pc,               \* position of the background thread in the scan operation
    scans,              \* scan operations started so far
    progress_seq,       \* values the running operation passed to update_progress, in order
    last_line,          \* the last line the running operation passed to log
    ext,                \* what the last subprocess.run did (see ExtOutcomes)
    result,             \* (out, err, code) of the operation's last run_powershell
    install_calls,      \* external calls made by ensure_module in the running operation
    main_calls,         \* invocations of the operation's main external command
    was_available,      \* pswindowsupdate_available when the running operation began
    \* ---- offline install
    o_pc,               \* background thread: "idle", "loop", "installing", "reboot"
    update_files,       \* len(update_files) / len(msu_files) of the running install
    item,               \* number of files the loop has dealt with
    success_count,      \* success_count
    skip_count,         \* skip_count (gated variant)
    fail_count,         \* fail_count (gated variant)
    outcomes,           \* what the installer did for each file installed so far
    summary,            \* the counts in the [SUMMARY] lines, NoSummary before
    auto_reboot,        \* self.config["auto_reboot"]
    flips,              \* clicks on the Auto-reboot checkbutton so far
    reboot_issued,      \* subprocess.run(["shutdown", "/r", ...]) was called
    stop_event,         \* self.stop_event.is_set()
    exited,             \* the process has ended, its daemon threads with it
    o_progress,         \* values the install that found files passed to update_progress
    \* ---- external calls
    x_prog,             \* which source file runs: "none", "gated" or "hdrv"
    x_op,               \* the method whose external calls are being made, "none" between
    x_path,             \* the call sites the method goes through, in order
    x_i,                \* how many of them it has completed
    x_pc,               \* "idle", "running", "calling" (inside subprocess.run)
    x_hung,             \* the process of the call in flight never exits on its own
    x_expired,          \* calls of the running method that ended in TimeoutExpired
    \* ---- configuration
    cfg_prog,           \* which source file runs: "none", "gated" or "hdrv"
    cfg_pc,             \* "nofile" (disk not looked at yet), "start", "loaded"
    cfg_file,           \* what CONFIG_FILE holds on disk
    config,             \* self.config
    cfg_raised,         \* load_config let an exception escape
    cfg_seen,           \* the auto_reboot value the last operation read
    \* ---- download and online install (samsoftupdate0.x.py)
    n_pc,               \* position of the background thread in the operation
    n_op,               \* "download" or "install", "none" before the first
    n_ext,              \* what the last subprocess.run of the operation did
    n_result,           \* (out, err, code) of the operation's last run_powershell
    n_logs,             \* the kinds of line the operation has logged
    n_progress,         \* values the operation passed to update_progress, in order
    manifest_calls,     \* calls of _create_update_manifest by the operation
    precheck,           \* what the pre-check call of the online install did
    \* ---- program.py
    install_btn,        \* state of self.install_btn: "normal" or "disabled"
    p_started,          \* threads started so far by the two buttons
    p_kind,             \* per thread: "check" or "install", "none" before it starts
    p_pc,               \* per thread: its position in _check_/_install_updates_thread
    p_out               \* per thread: (out, err) of its last run_powershell

gateAux == <<last_progress, raised, window>>

gateVars ==
    <<message_queue, running_operation, buttons_enabled, log_text, progress_var,
      status_var, pc, emitted, ui_pc, pending_polls, requests, sent_n,
      handled_n, gateAux>>

fpsVars ==
    <<log_queue, ui_update_queue, log_buffer, fps_log_text, perf_mode_var,
      fps_progress_var, fps_status_var, fps_pc, log_batch, elapsed, w_pc,
      calls_n, lines_n, toggles, taken_n, applied_n, shown_hi, inversion, buffered,
      sink_faults>>

scanVars ==
    <<variant, pswindowsupdate_available, s_pc, scans, progress_seq, last_line,
      ext, result, install_calls, main_calls, was_available>>

offVars ==
    <<o_pc, update_files, item, success_count, skip_count, fail_count, outcomes,
      summary, auto_reboot, flips, reboot_issued, stop_event, exited,
      o_progress>>

bodyVars == <<scanVars, offVars>>

callVars == <<x_prog, x_op, x_path, x_i, x_pc, x_hung, x_expired>>

cfgVars == <<cfg_prog, cfg_pc, cfg_file, config, cfg_raised, cfg_seen>>

onlineVars ==
    <<n_pc, n_op, n_ext, n_result, n_logs, n_progress, manifest_calls, precheck>>

progVars == <<install_btn, p_started, p_kind, p_pc, p_out>>

opsVars == <<callVars, cfgVars, onlineVars, progVars>>

vars == <<gateVars, fpsVars, bodyVars, opsVars>>

\* ----------------------------------------------------------- message_queue

\* An event as put on message_queue: the (msg_type, msg_data) tuple, tagged with
\* its producer and the producer's running number so that a lost, duplicated
\* or reordered event can be told apart.
Event(type, data, p) == [type |-> type, data |-> data, src |-> p, n |-> sent_n[p] + 1]

\* A put that places the event at the head of the queue.
QueuePutFront(q, ev) == <<ev>> \o q

\* queue.Queue.put: append at the tail, never blocks (unbounded queue).
QueuePut(q, ev) == Append(q, ev)

\* A queue that hands out the newest event first.
QueueFrontLifo(q) == q[Len(q)]

\* queue.Queue.get_nowait on a non-empty queue: the oldest event ...
QueueFront(q) == Head(q)

\* ... which is removed from the queue.
QueueRest(q) == Tail(q)

\* self.message_queue.put((type, data)) by producer p.
Put(p, type, data) ==
    /\ message_queue' = QueuePut(message_queue, Event(type, data, p))
    /\ sent_n' = [sent_n EXCEPT ![p] = @ + 1]

\* ------------------------------------------------------------ construction

InitGate ==
    /\ message_queue = <<>>
    /\ running_operation = FALSE
    /\ buttons_enabled = TRUE
    /\ log_text = 0
    /\ progress_var = 0
    /\ status_var = "Idle."
    /\ pc = [t \in Threads |-> "unborn"]
    /\ emitted = [t \in Threads |-> 0]
    /\ ui_pc = "idle"
    /\ pending_polls = 1
    /\ requests = 0
    /\ sent_n = [p \in Producers |-> 0]
    /\ handled_n = [p \in Producers |-> 0]
    /\ last_progress = [t \in Threads |-> NoProgress]
    /\ raised = [t \in Threads |-> FALSE]
    /\ window = "open"

\* ------------------------------------------------- UI thread: start requests

\* check_updates / download_updates / ... : the command of an operation button.
\* Tk invokes the command of a button only while the button is in state
\* "normal"; the method itself starts the thread only if running_operation is
\* False.  The new thread begins at the first line of _operation_wrapper.
StartRequest(op) ==
    /\ ui_pc = "idle"
    /\ window = "open"
    /\ buttons_enabled
    /\ ~running_operation
    /\ requests < MaxThreads
    /\ requests' = requests + 1
    /\ pc' = [pc EXCEPT ![requests + 1] = "gate"]
    /\ UNCHANGED <<message_queue, running_operation, buttons_enabled, log_text,
                   progress_var, status_var, emitted, ui_pc,
                   pending_polls, sent_n, handled_n>>
    /\ UNCHANGED <<gateAux, fpsVars, bodyVars, opsVars>>

\* ------------------------------------- background thread: _operation_wrapper

\* if self.running_operation:  (read by the background thread)
WrapperGate(t) ==
    /\ pc[t] = "gate"
    /\ pc' = [pc EXCEPT ![t] = IF running_operation THEN "warn" ELSE "disable"]
    /\ UNCHANGED <<message_queue, running_operation, buttons_enabled, log_text,
                   progress_var, status_var, emitted, ui_pc,
                   pending_polls, requests, sent_n, handled_n>>
    /\ UNCHANGED <<gateAux, fpsVars, bodyVars, opsVars>>

\* self.log("[WARNING] Another operation is already running..."); return
WrapperWarn(t) ==
    /\ pc[t] = "warn"
    /\ Put(t, "log", "warning")
    /\ pc' = [pc EXCEPT ![t] = "done"]
    /\ UNCHANGED <<running_operation, buttons_enabled, log_text, progress_var,
                   status_var, emitted, ui_pc, pending_polls,
                   requests, handled_n>>
    /\ UNCHANGED <<gateAux, fpsVars, bodyVars, opsVars>>

\* try: self.message_queue.put(("disable_buttons", None))
WrapperDisable(t) ==
    /\ pc[t] = "disable"
    /\ Put(t, "disable_buttons", "none")
    /\ pc' = [pc EXCEPT ![t] = "body"]
    /\ UNCHANGED <<running_operation, buttons_enabled, log_text, progress_var,
                   status_var, emitted, ui_pc, pending_polls,
                   requests, handled_n>>
    /\ UNCHANGED <<gateAux, fpsVars, bodyVars, opsVars>>

\* operation_func(): one self.log(...) of the body.
BodyLog(t) ==
    /\ pc[t] = "body"
    /\ emitted[t] < MaxEmit
    /\ Put(t, "log", "info")
    /\ emitted' = [emitted EXCEPT ![t] = @ + 1]
    /\ UNCHANGED <<running_operation, buttons_enabled, log_text, progress_var,
                   status_var, pc, ui_pc, pending_polls, requests,
                   handled_n>>
    /\ UNCHANGED <<gateAux, fpsVars, bodyVars, opsVars>>

\* An update_progress that sets the Tk variable from the calling thread.
ProgressVarSetByCaller(cur, v) == v

\* self.progress_var after update_progress(v): the method only puts
\* ("progress", v) on message_queue and leaves the variable as it is.
ProgressVarAfterPut(cur, v) == cur

\* operation_func(): one self.update_progress(v) of the body.
BodyProgress(t) ==
    /\ pc[t] = "body"
    /\ emitted[t] < MaxEmit
    /\ \E v \in ProgressValues :
          /\ Put(t, "progress", v)
          /\ last_progress' = [last_progress EXCEPT ![t] = v]
          /\ progress_var' = ProgressVarAfterPut(progress_var, v)
    /\ emitted' = [emitted EXCEPT ![t] = @ + 1]
    /\ UNCHANGED <<running_operation, buttons_enabled, log_text,
                   status_var, pc, ui_pc, pending_polls, requests,
                   handled_n>>
    /\ UNCHANGED <<raised, window, fpsVars, bodyVars, opsVars>>

\* operation_func() returns normally: control reaches the finally block.
BodyReturn(t) ==
    /\ pc[t] = "body"
    /\ pc' = [pc EXCEPT ![t] = "finally"]
    /\ UNCHANGED <<message_queue, running_operation, buttons_enabled, log_text,
                   progress_var, status_var, emitted, ui_pc,
                   pending_polls, requests, sent_n, handled_n>>
    /\ UNCHANGED <<gateAux, fpsVars, bodyVars, opsVars>>

\* operation_func() raises: control reaches "except Exception as e".
BodyRaise(t) ==
    /\ pc[t] = "body"
    /\ pc' = [pc EXCEPT ![t] = "except"]
    /\ raised' = [raised EXCEPT ![t] = TRUE]
    /\ UNCHANGED <<message_queue, running_operation, buttons_enabled, log_text,
                   progress_var, status_var, emitted, ui_pc,
                   pending_polls, requests, sent_n, handled_n>>
    /\ UNCHANGED <<last_progress, window, fpsVars, bodyVars, opsVars>>

\* A wrapper whose release step is skipped when the body raised.
AfterExceptSkipsFinally == "done"

\* The position a thread reaches after the except block of _operation_wrapper:
\* the finally block, which runs on every exit path of the try statement.
AfterExcept == "finally"

\* except Exception as e: self.log(f"[ERROR] Operation failed: ...")
WrapperExcept(t) ==
    /\ pc[t] = "except"
    /\ Put(t, "log", "error")
    /\ pc' = [pc EXCEPT ![t] = AfterExcept]
    /\ UNCHANGED <<running_operation, buttons_enabled, log_text, progress_var,
                   status_var, emitted, ui_pc, pending_polls,
                   requests, handled_n>>
    /\ UNCHANGED <<gateAux, fpsVars, bodyVars, opsVars>>

\* finally: self.message_queue.put(("enable_buttons", None))
WrapperFinally(t) ==
    /\ pc[t] = "finally"
    /\ Put(t, "enable_buttons", "none")
    /\ pc' = [pc EXCEPT ![t] = "done"]
    /\ UNCHANGED <<running_operation, buttons_enabled, log_text, progress_var,
                   status_var, emitted, ui_pc, pending_polls,
                   requests, handled_n>>
    /\ UNCHANGED <<gateAux, fpsVars, bodyVars, opsVars>>

ThreadStep(t) ==
    \/ WrapperGate(t)
    \/ WrapperWarn(t)
    \/ WrapperDisable(t)
    \/ BodyLog(t)
    \/ BodyProgress(t)
    \/ BodyReturn(t)
    \/ BodyRaise(t)
    \/ WrapperExcept(t)
    \/ WrapperFinally(t)

\* -------------------------------------- UI thread: process_message_queue

\* A _set_buttons_state that configures the buttons and forgets the flag.
SetButtonsStateButtonsOnly(enabled) == [buttons |-> enabled, running |-> FALSE]

\* The (running_operation, buttons) pair _set_buttons_state(enabled) leaves.
SetButtonsState(enabled) == [buttons |-> enabled, running |-> ~enabled]

\* The handler process_message_queue picks for one event, as the new display
\* and gate state: <<log_text, status_var, progress_var, buttons, running>>.
Dispatch(ev) ==
    CASE ev.type = "log" ->
            \* _log_safe: insert the line, set the status
            [log |-> log_text + 1, status |-> ev.data,
             progress |-> progress_var, buttons |-> buttons_enabled,
             running |-> running_operation]
      [] ev.type = "progress" ->
            \* _update_progress_safe
            [log |-> log_text, status |-> status_var, progress |-> ev.data,
             buttons |-> buttons_enabled, running |-> running_operation]
      [] ev.type = "status" ->
            [log |-> log_text, status |-> ev.data, progress |-> progress_var,
             buttons |-> buttons_enabled, running |-> running_operation]
      [] ev.type = "enable_buttons" ->
            [log |-> log_text, status |-> status_var, progress |-> progress_var,
             buttons |-> SetButtonsState(TRUE).buttons,
             running |-> SetButtonsState(TRUE).running]
      [] ev.type = "disable_buttons" ->
            [log |-> log_text, status |-> status_var, progress |-> progress_var,
             buttons |-> SetButtonsState(FALSE).buttons,
             running |-> SetButtonsState(FALSE).running]

\* The Tk timer fires: process_message_queue starts running on the UI thread.
PollStart ==
    /\ ui_pc = "idle"
    /\ pending_polls > 0
    /\ pending_polls' = pending_polls - 1
    /\ ui_pc' = "poll"
    /\ UNCHANGED <<message_queue, running_operation, buttons_enabled, log_text,
                   progress_var, status_var, pc, emitted, requests,
                   sent_n, handled_n>>
    /\ UNCHANGED <<gateAux, fpsVars, bodyVars, opsVars>>

\* One turn of "while True": get_nowait returns an event and its handler runs.
PollGet ==
    /\ ui_pc = "poll"
    /\ message_queue # <<>>
    /\ LET ev == QueueFront(message_queue)
           d  == Dispatch(ev)
       IN  /\ message_queue' = QueueRest(message_queue)
           /\ log_text' = d.log
           /\ status_var' = d.status
           /\ progress_var' = d.progress
           /\ buttons_enabled' = d.buttons
           /\ running_operation' = d.running
           /\ handled_n' = [handled_n EXCEPT ![ev.src] = ev.n]
    /\ UNCHANGED <<pc, emitted, ui_pc, pending_polls, requests,
                   sent_n>>
    /\ UNCHANGED <<gateAux, fpsVars, bodyVars, opsVars>>

\* A process_message_queue that schedules the next poll in its
\* "except queue.Empty" clause only.
PollsAfterExceptOnly(n, how) == IF how = "empty" THEN n + 1 ELSE n

\* The number of scheduled polls when process_message_queue is left, by
\* queue.Empty ("empty") or by an exception of a handler ("raised"):
\* "finally: self.root.after(100, self.process_message_queue)" runs on both.
PollsAfter(n, how) == n + 1

\* get_nowait raises queue.Empty: the loop ends, and the finally block
\* schedules the next poll with root.after(100, ...).
PollEmpty ==
    /\ ui_pc = "poll"
    /\ message_queue = <<>>
    /\ ui_pc' = "idle"
    /\ pending_polls' = PollsAfter(pending_polls, "empty")
    /\ UNCHANGED <<message_queue, running_operation, buttons_enabled, log_text,
                   progress_var, status_var, pc, emitted, requests,
                   sent_n, handled_n>>
    /\ UNCHANGED <<gateAux, fpsVars, bodyVars, opsVars>>

\* One turn of "while True" in which the handler raises (a TclError of a
\* widget or Tk variable call): the event was taken from the queue, the
\* exception is not a queue.Empty and leaves process_message_queue through
\* the finally block, which schedules the next poll; Tk reports the exception
\* and mainloop goes on.  The handler is taken to have raised before it
\* changed anything.
PollRaise ==
    /\ ui_pc = "poll"
    /\ message_queue # <<>>
    /\ message_queue' = QueueRest(message_queue)
    /\ handled_n' = [handled_n EXCEPT ![QueueFront(message_queue).src] =
                                        QueueFront(message_queue).n]
    /\ ui_pc' = "idle"
    /\ pending_polls' = PollsAfter(pending_polls, "raised")
    /\ UNCHANGED <<running_operation, buttons_enabled, log_text, progress_var,
                   status_var, pc, emitted, requests, sent_n>>
    /\ UNCHANGED <<gateAux, fpsVars, bodyVars, opsVars>>

\* ------------------------------------------------- UI thread: on_closing

\* WM_DELETE_WINDOW: on_closing reads app.running_operation and either shows
\* the "Quit" dialog or calls root.destroy() at once.
on_closing ==
    /\ ui_pc = "idle"
    /\ window = "open"
    /\ window' = IF running_operation THEN "asking" ELSE "destroyed"
    /\ UNCHANGED <<message_queue, running_operation, buttons_enabled, log_text,
                   progress_var, status_var, pc, emitted, ui_pc, pending_polls,
                   requests, sent_n, handled_n, last_progress, raised>>
    /\ UNCHANGED <<fpsVars, bodyVars, opsVars>>

\* messagebox.askokcancel returns: root.destroy() on OK, nothing on Cancel.
QuitAnswer(ok) ==
    /\ window = "asking"
    /\ window' = IF ok THEN "destroyed" ELSE "open"
    /\ UNCHANGED <<message_queue, running_operation, buttons_enabled, log_text,
                   progress_var, status_var, pc, emitted, ui_pc, pending_polls,
                   requests, sent_n, handled_n, last_progress, raised>>
    /\ UNCHANGED <<fpsVars, bodyVars, opsVars>>

\* ============================================================ 60-FPS variant

\* Producers of the 60-FPS variant: the UI thread and the background thread
\* started by queue_command.
UiThread == 0

Worker == 1

FpsProducers == {UiThread, Worker}

\* The log line of producer p's next API call: the msg put on log_queue,
\* tagged with its producer, the producer's call number n and line number k.
Line(p) == [src |-> p, n |-> calls_n[p] + 1, k |-> lines_n[p] + 1]

\* The closure of producer p's next API call, as put on ui_update_queue:
\* "status" for lambda: self.status_var.set(msg[:80]), "progress" for
\* lambda: self.progress_var.set(value).
Closure(kind, val, p) == [kind |-> kind, val |-> val, src |-> p, n |-> calls_n[p] + 1]

\* The last k elements of a sequence: list(x)[-k:]
LastK(s, k) == IF Len(s) <= k THEN s ELSE SubSeq(s, Len(s) - k + 1, Len(s))

\* The first k elements of a sequence.
FirstK(s, k) == IF Len(s) <= k THEN s ELSE SubSeq(s, 1, k)

\* A bounded buffer that refuses a new line once it is full.
DequeAppendDropNew(buf, x) ==
    IF Len(buf) >= LOG_BUFFER_SIZE THEN buf ELSE Append(buf, x)

\* deque.append on a deque with maxlen: when full, the item at the other end
\* (the oldest) is discarded.
DequeAppend(buf, x) ==
    IF Len(buf) >= LOG_BUFFER_SIZE THEN Append(Tail(buf), x) ELSE Append(buf, x)

\* deque.extend(messages): append the items one by one, left to right.
RECURSIVE DequeExtend(_, _)
DequeExtend(buf, msgs) ==
    IF msgs = <<>> THEN buf
    ELSE DequeExtend(DequeAppend(buf, Head(msgs)), Tail(msgs))

\* A redraw that shows the oldest lines of the buffer.
VisibleOldest(buf) == FirstK(buf, VisibleLines)

\* visible_messages = list(self.log_buffer)[-100:]
VisibleMessages(buf) == LastK(buf, VisibleLines)

\* A drain loop without the batch cap.
DrainMoreNoCap(q, batch) == q # <<>>

\* while not self.log_queue.empty() and len(log_batch) < 50
DrainMore(q, batch) == q # <<>> /\ Len(batch) < LogBatchCap

\* A tick that never looks at the clock.
OverBudgetNever(e) == FALSE

\* time.time() - start_time > (FRAME_TIME * 0.8) / 1000
OverBudget(e) == e > FrameBudget

\* The clock after a step that took d microseconds; values beyond the budget
\* are all alike.
Elapse(e, d) == IF e + d > FrameBudget THEN FrameBudget + 1 ELSE e + d

\* The highest call number per producer among shown_hi and the items now
\* reaching the display.
ShownHi(items) ==
    [p \in FpsProducers |->
        LET ns == {shown_hi[p]} \cup {items[i].n : i \in {j \in 1 .. Len(items) : items[j].src = p}}
        IN  CHOOSE m \in ns : \A x \in ns : x <= m]

\* An item of the background thread now reaching the display was emitted
\* before one of the same thread that is already shown.
Inverts(items) ==
    \E i \in 1 .. Len(items) :
        items[i].src = Worker /\ items[i].n < shown_hi[Worker]

\* The line number of the last line of each producer in a batch handed to
\* batch_log_update.
TakenAfter(batch) ==
    [p \in FpsProducers |->
        LET ks == {taken_n[p]} \cup {batch[i].k : i \in {j \in 1 .. Len(batch) : batch[j].src = p}}
        IN  CHOOSE m \in ks : \A x \in ks : x <= m]

\* State after __init__: start_ui_loop has run one empty tick and scheduled the
\* next; check_pswindowsupdate then logged two lines on the UI thread.
\* perf_mode_var comes from the stored configuration.
InitFps ==
    /\ log_queue = << [src |-> UiThread, n |-> 1, k |-> 1],
                      [src |-> UiThread, n |-> 2, k |-> 2] >>
    /\ ui_update_queue = << [kind |-> "status", val |-> "msg", src |-> UiThread, n |-> 1],
                            [kind |-> "status", val |-> "msg", src |-> UiThread, n |-> 2] >>
    /\ log_buffer = <<>>
    /\ fps_log_text = <<>>
    /\ perf_mode_var \in BOOLEAN
    /\ fps_progress_var = 0
    /\ fps_status_var = "Idle."
    /\ fps_pc = "scheduled"
    /\ log_batch = <<>>
    /\ elapsed = 0
    /\ w_pc = "run"
    /\ calls_n = [p \in FpsProducers |-> IF p = UiThread THEN 2 ELSE 0]
    /\ lines_n = [p \in FpsProducers |-> IF p = UiThread THEN 2 ELSE 0]
    /\ toggles = 0
    /\ taken_n = [p \in FpsProducers |-> 0]
    /\ applied_n = [p \in FpsProducers |-> 0]
    /\ shown_hi = [p \in FpsProducers |-> 0]
    /\ inversion = FALSE
    /\ buffered = <<>>
    /\ sink_faults = 0

\* ------------------------------------------ producers: log, update_progress

\* log(msg), first statement on the background thread: self.log_queue.put(msg)
WorkerLogPut ==
    /\ w_pc = "run"
    /\ calls_n[Worker] < MaxCalls
    /\ log_queue' = QueuePut(log_queue, Line(Worker))
    /\ lines_n' = [lines_n EXCEPT ![Worker] = @ + 1]
    /\ w_pc' = "log2"
    /\ UNCHANGED <<ui_update_queue, log_buffer, fps_log_text, perf_mode_var,
                   fps_progress_var, fps_status_var, fps_pc, log_batch, elapsed,
                   calls_n, toggles, taken_n, applied_n, shown_hi, inversion,
                   buffered, sink_faults>>
    /\ UNCHANGED <<gateVars, bodyVars, opsVars>>

\* log(msg), second statement: self.ui_update_queue.put(lambda: status_var.set(...))
WorkerLogStatus ==
    /\ w_pc = "log2"
    /\ ui_update_queue' = QueuePut(ui_update_queue, Closure("status", "msg", Worker))
    /\ calls_n' = [calls_n EXCEPT ![Worker] = @ + 1]
    /\ w_pc' = "run"
    /\ UNCHANGED <<log_queue, log_buffer, fps_log_text, perf_mode_var,
                   fps_progress_var, fps_status_var, fps_pc, log_batch, elapsed,
                   lines_n, toggles, taken_n, applied_n, shown_hi, inversion,
                   buffered, sink_faults>>
    /\ UNCHANGED <<gateVars, bodyVars, opsVars>>

\* update_progress(value) on the background thread.
WorkerProgress ==
    /\ w_pc = "run"
    /\ calls_n[Worker] < MaxCalls
    /\ \E v \in ProgressValues :
          ui_update_queue' = QueuePut(ui_update_queue, Closure("progress", v, Worker))
    /\ calls_n' = [calls_n EXCEPT ![Worker] = @ + 1]
    /\ UNCHANGED <<log_queue, log_buffer, fps_log_text, perf_mode_var,
                   fps_progress_var, fps_status_var, fps_pc, log_batch, elapsed,
                   w_pc, lines_n, toggles, taken_n, applied_n, shown_hi,
                   inversion, buffered, sink_faults>>
    /\ UNCHANGED <<gateVars, bodyVars, opsVars>>

\* toggle_performance on the UI thread, up to the first statement of its
\* self.log(...): the checkbutton has flipped perf_mode_var.  The handler runs
\* between two ticks, or at any time once no tick is scheduled any more
\* ("dead").
toggle_performance ==
    /\ fps_pc \in {"scheduled", "dead"}
    /\ toggles < MaxToggles
    /\ toggles' = toggles + 1
    /\ perf_mode_var' = ~perf_mode_var
    /\ log_queue' = QueuePut(log_queue, Line(UiThread))
    /\ lines_n' = [lines_n EXCEPT ![UiThread] = @ + 1]
    /\ fps_pc' = IF fps_pc = "scheduled" THEN "toggle" ELSE "dead_toggle"
    /\ UNCHANGED <<ui_update_queue, log_buffer, fps_log_text, fps_progress_var,
                   fps_status_var, log_batch, elapsed, w_pc, calls_n, taken_n,
                   applied_n, shown_hi, inversion, buffered, sink_faults>>
    /\ UNCHANGED <<gateVars, bodyVars, opsVars>>

\* toggle_performance, second statement of its self.log(...).
ToggleLogStatus ==
    /\ fps_pc \in {"toggle", "dead_toggle"}
    /\ ui_update_queue' = QueuePut(ui_update_queue, Closure("status", "msg", UiThread))
    /\ calls_n' = [calls_n EXCEPT ![UiThread] = @ + 1]
    /\ fps_pc' = IF fps_pc = "toggle" THEN "scheduled" ELSE "dead"
    /\ UNCHANGED <<log_queue, log_buffer, fps_log_text, perf_mode_var,
                   fps_progress_var, fps_status_var, log_batch, elapsed, w_pc,
                   lines_n, toggles, taken_n, applied_n, shown_hi, inversion,
                   buffered, sink_faults>>
    /\ UNCHANGED <<gateVars, bodyVars, opsVars>>

\* ------------------------------------------------- UI thread: update_ui tick

\* The Tk timer fires start_ui_loop, which calls update_ui:
\* start_time = time.time(); log_batch = []
TickStart ==
    /\ fps_pc = "scheduled"
    /\ fps_pc' = "log_phase"
    /\ log_batch' = <<>>
    /\ elapsed' = 0
    /\ UNCHANGED <<log_queue, ui_update_queue, log_buffer, fps_log_text,
                   perf_mode_var, fps_progress_var, fps_status_var, w_pc,
                   calls_n, lines_n, toggles, taken_n, applied_n, shown_hi,
                   inversion, buffered, sink_faults>>
    /\ UNCHANGED <<gateVars, bodyVars, opsVars>>

\* One turn of the log drain: log_batch.append(self.log_queue.get_nowait())
TickGetLog ==
    /\ fps_pc = "log_phase"
    /\ DrainMore(log_queue, log_batch)
    /\ log_batch' = Append(log_batch, QueueFront(log_queue))
    /\ log_queue' = QueueRest(log_queue)
    /\ \E d \in StepCosts : elapsed' = Elapse(elapsed, d)
    /\ UNCHANGED <<ui_update_queue, log_buffer, fps_log_text, perf_mode_var,
                   fps_progress_var, fps_status_var, fps_pc, w_pc, calls_n,
                   lines_n, toggles, taken_n, applied_n, shown_hi, inversion,
                   buffered, sink_faults>>
    /\ UNCHANGED <<gateVars, bodyVars, opsVars>>

\* batch_log_update(messages): the new <<log_buffer, fps_log_text, buffered>>.
batch_log_update(messages) ==
    IF ~perf_mode_var
    THEN \* standard mode: insert every line at the end
         [buffer |-> log_buffer,
          text |-> fps_log_text \o messages,
          hist |-> buffered]
    ELSE \* performance mode: extend the buffer, redraw the last lines
         [buffer |-> DequeExtend(log_buffer, messages),
          text |-> VisibleMessages(DequeExtend(log_buffer, messages)),
          hist |-> buffered \o messages]

\* The drain loop ends; "if log_batch: self.batch_log_update(log_batch)".
TickBatch ==
    /\ fps_pc = "log_phase"
    /\ ~DrainMore(log_queue, log_batch)
    /\ IF log_batch # <<>>
       THEN /\ log_buffer' = batch_log_update(log_batch).buffer
            /\ fps_log_text' = batch_log_update(log_batch).text
            /\ buffered' = batch_log_update(log_batch).hist
            /\ taken_n' = TakenAfter(log_batch)
            /\ shown_hi' = ShownHi(log_batch)
            /\ inversion' = (inversion \/ Inverts(log_batch))
       ELSE UNCHANGED <<log_buffer, fps_log_text, buffered, taken_n, shown_hi,
                        inversion>>
    /\ fps_pc' = "ui_phase"
    /\ \E d \in StepCosts : elapsed' = Elapse(elapsed, d)
    /\ UNCHANGED <<log_queue, ui_update_queue, perf_mode_var, fps_progress_var,
                   fps_status_var, log_batch, w_pc, calls_n, lines_n, toggles,
                   applied_n, sink_faults>>
    /\ UNCHANGED <<gateVars, bodyVars, opsVars>>

\* One turn of the UI-update loop: update_func = get_nowait(); update_func();
\* then the clock is read and the loop is left when the budget is exceeded.
\* Leaving update_ui returns to start_ui_loop, which schedules the next tick.
TickApply ==
    /\ fps_pc = "ui_phase"
    /\ ui_update_queue # <<>>
    /\ LET c == QueueFront(ui_update_queue)
       IN  /\ ui_update_queue' = QueueRest(ui_update_queue)
           /\ fps_status_var' = IF c.kind = "status" THEN c.val ELSE fps_status_var
           /\ fps_progress_var' = IF c.kind = "progress" THEN c.val ELSE fps_progress_var
           /\ applied_n' = [applied_n EXCEPT ![c.src] = c.n]
           /\ shown_hi' = ShownHi(<<c>>)
           /\ inversion' = (inversion \/ Inverts(<<c>>))
    /\ \E d \in StepCosts :
          /\ elapsed' = Elapse(elapsed, d)
          /\ fps_pc' = IF OverBudget(Elapse(elapsed, d)) THEN "scheduled" ELSE "ui_phase"
    /\ UNCHANGED <<log_queue, log_buffer, fps_log_text, perf_mode_var, log_batch,
                   w_pc, calls_n, lines_n, toggles, taken_n, buffered,
                   sink_faults>>
    /\ UNCHANGED <<gateVars, bodyVars, opsVars>>

\* "while not self.ui_update_queue.empty()" finds the queue empty: update_ui
\* returns and start_ui_loop schedules the next tick.
TickEnd ==
    /\ fps_pc = "ui_phase"
    /\ ui_update_queue = <<>>
    /\ fps_pc' = "scheduled"
    /\ UNCHANGED <<log_queue, ui_update_queue, log_buffer, fps_log_text,
                   perf_mode_var, fps_progress_var, fps_status_var, log_batch,
                   elapsed, w_pc, calls_n, lines_n, toggles, taken_n, applied_n,
                   shown_hi, inversion, buffered, sink_faults>>
    /\ UNCHANGED <<gateVars, bodyVars, opsVars>>

\* update_func() raises (the display sink fails).  update_ui catches only
\* queue.Empty, so the exception leaves update_ui and start_ui_loop before
\* root.after is reached: no further tick is scheduled.  Tk reports the
\* exception of the callback on stderr.
TickApplyRaises ==
    /\ fps_pc = "ui_phase"
    /\ ui_update_queue # <<>>
    /\ sink_faults' = sink_faults + 1
    /\ applied_n' = [applied_n EXCEPT ![QueueFront(ui_update_queue).src] =
                                          QueueFront(ui_update_queue).n]
    /\ ui_update_queue' = QueueRest(ui_update_queue)
    /\ fps_pc' = "dead"
    /\ UNCHANGED <<log_queue, log_buffer, fps_log_text, perf_mode_var,
                   fps_progress_var, fps_status_var, log_batch, elapsed, w_pc,
                   calls_n, lines_n, toggles, taken_n, shown_hi, inversion,
                   buffered>>
    /\ UNCHANGED <<gateVars, bodyVars, opsVars>>

\* ========================================================= operation bodies

Variants == {"gated", "fps", "hdrv"}

\* Texts (stdout, stderr, log messages) are sequences of tokens; "ws" is
\* white space, <<>> the empty string.
Contains(tok, text) == \E i \in 1 .. Len(text) : text[i] = tok

\* str.strip(): white space removed at both ends.
RECURSIVE StripLeft(_)
StripLeft(text) ==
    IF text # <<>> /\ Head(text) = "ws" THEN StripLeft(Tail(text)) ELSE text

RECURSIVE StripRight(_)
StripRight(text) ==
    IF text # <<>> /\ text[Len(text)] = "ws"
    THEN StripRight(SubSeq(text, 1, Len(text) - 1)) ELSE text

Strip(text) == StripRight(StripLeft(text))

\* What the external PowerShell process can write to stdout and stderr.
Stdouts ==
    {<<>>, <<"ws">>, <<"No updates available">>, <<"KB5030211">>, <<"SUCCESS">>}

Stderrs ==
    {<<>>, <<"0x80240024">>, <<"already exists">>, <<"Access denied">>}

\* What subprocess.run can do: complete with stdout, stderr and an exit
\* code, raise TimeoutExpired, or raise another exception (OSError).
ExtOutcomes ==
    [kind : {"completed"}, stdout : Stdouts, stderr : Stderrs, returncode : {0, 1}]
      \cup {[kind |-> "timeout", stdout |-> <<>>, stderr |-> <<>>, returncode |-> 0],
            [kind |-> "oserror", stdout |-> <<>>, stderr |-> <<>>, returncode |-> 0]}

\* A run_powershell that reports a timeout like any other failure to run.
RunPowershellGenericTimeout(o) ==
    IF o.kind = "completed"
    THEN [out |-> Strip(o.stdout), err |-> Strip(o.stderr), code |-> o.returncode]
    ELSE [out |-> <<>>, err |-> <<"Error executing PowerShell", "detail">>, code |-> 1]

\* run_powershell: the (stdout, stderr, returncode) triple it returns.
\*   except subprocess.TimeoutExpired: return "", "Command timed out after ...", 1
\*   except Exception as e: return "", f"Error executing PowerShell: {str(e)}", 1
run_powershell(o) ==
    IF o.kind = "completed"
    THEN [out |-> Strip(o.stdout), err |-> Strip(o.stderr), code |-> o.returncode]
    ELSE IF o.kind = "timeout"
    THEN [out |-> <<>>, err |-> <<"Command timed out">>, code |-> 1]
    ELSE [out |-> <<>>, err |-> <<"Error executing PowerShell", "detail">>, code |-> 1]

\* A log line: its bracketed tag and the text that follows.
LogLine(tag, text) == [tag |-> tag, text |-> text]

\* check_pswindowsupdate: the value it gives pswindowsupdate_available.
\*   gated:  out and "Name" in out and "PSWindowsUpdate" in out
\*   others: not (not out.strip() and not err)
check_pswindowsupdate(v, r) ==
    IF v = "gated"
    THEN r.out # <<>> /\ Contains("Name PSWindowsUpdate", r.out)
    ELSE ~(Strip(r.out) = <<>> /\ r.err = <<>>)

\* ensure_module after its external call: whether the install counts as done.
\*   gated:  "SUCCESS" in out
\*   others: not (err and "already exists" not in err and "NoMatch" not in err)
InstallSucceeded(v, r) ==
    IF v = "gated"
    THEN Contains("SUCCESS", r.out)
    ELSE ~(r.err # <<>> /\ ~Contains("already exists", r.err) /\ ~Contains("NoMatch", r.err))

\* range(a, b, step) of Python, step > 0.
RECURSIVE PyRange(_, _, _)
PyRange(a, b, step) ==
    IF a >= b THEN <<>> ELSE <<a>> \o PyRange(a + step, b, step)

\* Progress values the scan emits between ensure_module and the main command.
\*   gated, hdrv: update_progress(30);  fps: for i in range(10, 30, 2)
RampBeforeCommand(v) == IF v = "fps" THEN PyRange(10, 30, 2) ELSE <<30>>

\* Progress values the scan emits right after the main command.
\*   gated, hdrv: update_progress(70);  fps: for i in range(30, 70, 3)
RampAfterCommand(v) == IF v = "fps" THEN PyRange(30, 70, 3) ELSE <<70>>

\* A completion ramp whose range stops one short of 100.
RampToEndStopsShort(v) == IF v = "fps" THEN PyRange(70, 100, 2) ELSE <<99>>

\* Progress values the scan emits at its end, before time.sleep.
\*   gated, hdrv: update_progress(100);  fps: for i in range(70, 101, 2)
RampToEnd(v) == IF v = "fps" THEN PyRange(70, 101, 2) ELSE <<100>>

\* A scan that takes every output without the "no updates" marker, the empty
\* one included, for a list of updates.
ScanResultLineNoEmptyCheck(v, r) ==
    IF r.err # <<>> /\ ~Contains("0x80240024", r.err)
    THEN LogLine("ERROR", r.err)
    ELSE IF Contains("No updates available", r.out) \/ Contains("0x80240024", r.err)
         THEN LogLine("OK", <<"System is up to date">>)
         ELSE LogLine("LINE", r.out)

\* The last line the scan logs for the result r of its main command.
ScanResultLine(v, r) ==
    IF v = "gated"
    THEN IF r.code = 0
         THEN IF Contains("No updates available", r.out) \/ Strip(r.out) = <<>>
              THEN LogLine("OK", <<"System is up to date">>)
              ELSE LogLine("LINE", r.out)
         ELSE IF Contains("0x80240024", r.err)
              THEN LogLine("OK", <<"System is up to date">>)
              ELSE LogLine("ERROR", <<"Failed to check updates">> \o r.err)
    ELSE IF r.err # <<>> /\ ~Contains("0x80240024", r.err)
         THEN LogLine("ERROR", r.err)
         ELSE IF Strip(r.out) = <<>> \/ Contains("0x80240024", r.err)
              THEN LogLine("OK", <<"System is up to date">>)
              ELSE LogLine("LINE", r.out)

\* Before the first external call of an operation.
NoOutcome == [kind |-> "none", stdout |-> <<>>, stderr |-> <<>>, returncode |-> 0]

NoResult == [out |-> <<>>, err |-> <<>>, code |-> 0]

\* What the module probe of check_pswindowsupdate can print in addition.
ProbeOutcomes ==
    ExtOutcomes \cup {[kind |-> "completed", stdout |-> <<"Name PSWindowsUpdate">>,
                       stderr |-> <<>>, returncode |-> 0]}

\* State inside __init__, before its last statement check_pswindowsupdate():
\* self.pswindowsupdate_available = False.  Which of the three programs was
\* launched is settled by the first step.
InitScan ==
    /\ variant = "none"
    /\ pswindowsupdate_available = FALSE
    /\ s_pc = "init"
    /\ scans = 0
    /\ progress_seq = <<>>
    /\ last_line = LogLine("NONE", <<>>)
    /\ ext = NoOutcome
    /\ result = NoResult
    /\ install_calls = 0
    /\ main_calls = 0
    /\ was_available = FALSE

\* The program v is launched: __init__ loads the configuration and ends with
\* check_pswindowsupdate().
Launch(v) ==
    /\ s_pc = "init"
    /\ variant' = v
    /\ \E o \in ProbeOutcomes :
          /\ ext' = o
          /\ result' = run_powershell(o)
          /\ pswindowsupdate_available' = check_pswindowsupdate(v, run_powershell(o))
          /\ last_line' = IF check_pswindowsupdate(v, run_powershell(o))
                          THEN LogLine("OK", <<"PSWindowsUpdate module is available">>)
                          ELSE LogLine("INFO", <<"PSWindowsUpdate module not found">>)
    /\ auto_reboot' \in BOOLEAN
    /\ s_pc' = "idle"
    /\ UNCHANGED <<scans, progress_seq, install_calls, main_calls, was_available>>
    /\ UNCHANGED <<o_pc, update_files, item, success_count, skip_count,
                   fail_count, outcomes, summary, flips, reboot_issued,
                   stop_event, exited, o_progress>>
    /\ UNCHANGED <<gateVars, fpsVars, opsVars>>

\* The scan operation begins on its background thread:
\* self.log("[CHECK] Searching online for updates..."); self.update_progress(10)
ScanStart ==
    /\ s_pc = "idle"
    /\ scans < MaxScans
    /\ scans' = scans + 1
    /\ progress_seq' = <<10>>
    /\ last_line' = LogLine("CHECK", <<"Searching online for updates">>)
    /\ ext' = NoOutcome
    /\ result' = NoResult
    /\ install_calls' = 0
    /\ main_calls' = 0
    /\ was_available' = pswindowsupdate_available
    /\ s_pc' = "ensure"
    /\ UNCHANGED <<variant, pswindowsupdate_available>>
    /\ UNCHANGED <<gateVars, fpsVars, offVars, opsVars>>

\* An ensure_module that installs whatever the flag says.
NeedsInstallAlways(available) == TRUE

\* ensure_module's first statement, negated:
\* "if self.pswindowsupdate_available: return True"
NeedsInstall(available) == ~available

\* An ensure_module that tries the install again after a failure.
AfterFailedInstallRetries == "ensure"

\* Where the operation goes when the install failed: ensure_module logs the
\* error and returns False, there is no second attempt.
AfterFailedInstall == "nomodule"

\* ensure_module with the flag set: "return True", nothing else.
EnsureAvailable ==
    /\ s_pc = "ensure"
    /\ ~NeedsInstall(pswindowsupdate_available)
    /\ s_pc' = "command"
    /\ UNCHANGED <<variant, pswindowsupdate_available, scans, progress_seq,
                   last_line, ext, result, install_calls, main_calls,
                   was_available>>
    /\ UNCHANGED <<gateVars, fpsVars, offVars, opsVars>>

\* ensure_module with the flag clear: one run_powershell(install_cmd), then
\* either the flag is set and True returned, or an error is logged and False
\* returned.
EnsureInstall ==
    /\ s_pc = "ensure"
    /\ NeedsInstall(pswindowsupdate_available)
    /\ install_calls' = install_calls + 1
    /\ \E o \in ExtOutcomes :
          /\ ext' = o
          /\ result' = run_powershell(o)
          /\ IF InstallSucceeded(variant, run_powershell(o))
             THEN /\ pswindowsupdate_available' = TRUE
                  /\ last_line' = LogLine("OK", <<"PSWindowsUpdate installed successfully">>)
                  /\ s_pc' = "command"
             ELSE /\ pswindowsupdate_available' = pswindowsupdate_available
                  /\ last_line' = LogLine("ERROR", <<"Failed to install PSWindowsUpdate">>
                                                    \o run_powershell(o).err)
                  /\ s_pc' = AfterFailedInstall
    /\ UNCHANGED <<variant, scans, progress_seq, main_calls, was_available>>
    /\ UNCHANGED <<gateVars, fpsVars, offVars, opsVars>>

\* "if not self.ensure_module():" taken: the gated variant logs
\* "[ERROR] Cannot proceed without PSWindowsUpdate module."; all variants
\* call update_progress(0) and return.
ScanNoModule ==
    /\ s_pc = "nomodule"
    /\ last_line' = IF variant = "gated"
                    THEN LogLine("ERROR", <<"Cannot proceed without PSWindowsUpdate module">>)
                    ELSE last_line
    /\ progress_seq' = Append(progress_seq, 0)
    /\ s_pc' = "idle"
    /\ UNCHANGED <<variant, pswindowsupdate_available, scans, ext, result,
                   install_calls, main_calls, was_available>>
    /\ UNCHANGED <<gateVars, fpsVars, offVars, opsVars>>

\* The progress ramp, the main command Get-WUList through run_powershell,
\* and the progress ramp after it.
ScanCommand ==
    /\ s_pc = "command"
    /\ main_calls' = main_calls + 1
    /\ \E o \in ExtOutcomes :
          /\ ext' = o
          /\ result' = run_powershell(o)
    /\ progress_seq' = progress_seq \o RampBeforeCommand(variant) \o RampAfterCommand(variant)
    /\ s_pc' = "report"
    /\ UNCHANGED <<variant, pswindowsupdate_available, scans, last_line,
                   install_calls, was_available>>
    /\ UNCHANGED <<gateVars, fpsVars, offVars, opsVars>>

\* The result is logged, the progress goes up to 100, and after time.sleep
\* update_progress(0) ends the operation.
ScanReport ==
    /\ s_pc = "report"
    /\ last_line' = ScanResultLine(variant, result)
    /\ progress_seq' = progress_seq \o RampToEnd(variant) \o <<0>>
    /\ s_pc' = "idle"
    /\ UNCHANGED <<variant, pswindowsupdate_available, scans, ext, result,
                   install_calls, main_calls, was_available>>
    /\ UNCHANGED <<gateVars, fpsVars, offVars, opsVars>>

\* ---------------------------------------------------------- offline install

\* What the installer call for one file can do: exit code 0, the
\* "already installed" code 2359302, another exit code, TimeoutExpired, or
\* another exception.
ItemOutcomes == {"exit0", "already", "other", "timeout", "exception"}

NoSummary == [success |-> -1, skipped |-> -1, failed |-> -1, total |-> -1]

\* An install loop that forgets to count a timed-out file.
ItemResultDropsTimeout(v, o) ==
    IF o = "exit0" THEN "success"
    ELSE IF v # "gated" \/ o = "timeout" THEN "none"
    ELSE IF o = "already" THEN "skip"
    ELSE "fail"

\* The counter the install loop increments for a file whose installer did o.
\* The gated variant counts success, skipped and failed files; the other
\* two count successes only.
ItemResult(v, o) ==
    IF o = "exit0" THEN "success"
    ELSE IF v # "gated" THEN "none"
    ELSE IF o = "already" THEN "skip"
    ELSE "fail"

\* A reboot decision that looks at the flag only.
ShouldRebootOnFlagOnly(successes, flag) == flag

\* if success_count > 0 ... self.config.get("auto_reboot", False)
ShouldReboot(successes, flag) == successes > 0 /\ flag

\* The index after the batch that file number i (0-based) belongs to:
\* where the outer loop continues when the inner loop breaks.
BatchEnd(i, n) ==
    IF ((i \div BatchSize) + 1) * BatchSize < n
    THEN ((i \div BatchSize) + 1) * BatchSize ELSE n

\* update_progress before the loop: 10 and 30, and 40 in the 60-FPS variant
\* and samsofthdrv0.py.
ProgressBeforeLoop(v) == IF v = "gated" THEN <<10, 30>> ELSE <<10, 30, 40>>

\* A progress formula that counts the files from 1 and uses the wider range.
ItemProgressOvershoots(v, i, n) == 40 + ((i + 1) * 60) \div n

\* The value passed to update_progress after file number i (0-based) of n:
\*   gated: int(30 + (i * 60 / len(update_files)))
\*   hdrv:  int(40 + (i * 50 / len(msu_files)))
ItemProgress(v, i, n) ==
    IF v = "gated" THEN 30 + (i * 60) \div n ELSE 40 + (i * 50) \div n

\* 60-FPS variant, after a batch: int(40 + ((i + len(batch)) * 50 / len(msu_files))),
\* where done = i + len(batch) is the number of files of all batches so far.
BatchProgress(done, n) == 40 + (done * 50) \div n

InitOff ==
    /\ o_pc = "idle"
    /\ update_files = 0
    /\ item = 0
    /\ success_count = 0
    /\ skip_count = 0
    /\ fail_count = 0
    /\ outcomes = <<>>
    /\ summary = NoSummary
    /\ auto_reboot = FALSE
    /\ flips = 0
    /\ reboot_issued = FALSE
    /\ stop_event = FALSE
    /\ exited = FALSE
    /\ o_progress = <<>>

\* toggle_auto_reboot on the UI thread.
toggle_auto_reboot ==
    /\ s_pc = "idle"
    /\ ~exited
    /\ flips < MaxFlips
    /\ flips' = flips + 1
    /\ auto_reboot' = ~auto_reboot
    /\ UNCHANGED <<o_pc, update_files, item, success_count, skip_count,
                   fail_count, outcomes, summary, reboot_issued, stop_event,
                   exited, o_progress>>
    /\ UNCHANGED <<gateVars, fpsVars, scanVars, opsVars>>

\* The offline install begins on its background thread and finds m > 0
\* files.  (With none it logs an error, calls update_progress(0) and returns,
\* which leaves this state as it is.)
OfflineStart(m) ==
    /\ s_pc = "idle"
    /\ o_pc = "idle"
    /\ ~exited
    /\ update_files = 0
    /\ m > 0
    /\ update_files' = m
    /\ item' = 0
    /\ success_count' = 0
    /\ skip_count' = 0
    /\ fail_count' = 0
    /\ outcomes' = <<>>
    /\ o_progress' = ProgressBeforeLoop(variant)
    /\ o_pc' = "loop"
    /\ UNCHANGED <<summary, auto_reboot, flips, reboot_issued, stop_event, exited>>
    /\ UNCHANGED <<gateVars, fpsVars, scanVars, opsVars>>

\* The loop turns to the next file.  The 60-FPS variant first tests
\* stop_event and leaves the inner loop when it is set; the outer loop then
\* goes on with the next batch.
OfflineNextItem ==
    /\ o_pc = "loop"
    /\ ~exited
    /\ item < update_files
    /\ IF variant = "fps" /\ stop_event
       THEN /\ item' = BatchEnd(item, update_files)
            /\ o_progress' = Append(o_progress,
                                 BatchProgress(BatchEnd(item, update_files), update_files))
            /\ o_pc' = "loop"
       ELSE /\ item' = item
            /\ o_progress' = o_progress
            /\ o_pc' = "installing"
    /\ UNCHANGED <<update_files, success_count, skip_count, fail_count, outcomes,
                   summary, auto_reboot, flips, reboot_issued, stop_event,
                   exited>>
    /\ UNCHANGED <<gateVars, fpsVars, scanVars, opsVars>>

\* subprocess.run of the installer for the current file ends with outcome o;
\* the result is logged and counted.
OfflineInstall(o) ==
    /\ o_pc = "installing"
    /\ ~exited
    /\ outcomes' = Append(outcomes, o)
    /\ success_count' = success_count + (IF ItemResult(variant, o) = "success" THEN 1 ELSE 0)
    /\ skip_count' = skip_count + (IF ItemResult(variant, o) = "skip" THEN 1 ELSE 0)
    /\ fail_count' = fail_count + (IF ItemResult(variant, o) = "fail" THEN 1 ELSE 0)
    /\ item' = item + 1
    /\ o_progress' =
          IF variant # "fps"
          THEN Append(o_progress, ItemProgress(variant, item, update_files))
          ELSE IF item + 1 = BatchEnd(item, update_files)
               THEN Append(o_progress, BatchProgress(item + 1, update_files))
               ELSE o_progress
    /\ o_pc' = "loop"
    /\ UNCHANGED <<update_files, summary, auto_reboot, flips, reboot_issued,
                   stop_event, exited>>
    /\ UNCHANGED <<gateVars, fpsVars, scanVars, opsVars>>

\* After the loop: update_progress(90) and the [SUMMARY] line(s).
OfflineSummary ==
    /\ o_pc = "loop"
    /\ ~exited
    /\ item = update_files
    /\ summary' = IF variant = "gated"
                  THEN [success |-> success_count, skipped |-> skip_count,
                        failed |-> fail_count, total |-> update_files]
                  ELSE [success |-> success_count, skipped |-> 0,
                        failed |-> 0, total |-> update_files]
    /\ o_progress' = Append(o_progress, 90)
    /\ o_pc' = "reboot"
    /\ UNCHANGED <<update_files, item, success_count, skip_count, fail_count,
                   outcomes, auto_reboot, flips, reboot_issued, stop_event,
                   exited>>
    /\ UNCHANGED <<gateVars, fpsVars, scanVars, opsVars>>

\* The reboot decision, then update_progress(100), sleep, update_progress(0).
OfflineReboot ==
    /\ o_pc = "reboot"
    /\ ~exited
    /\ reboot_issued' = ShouldReboot(success_count, auto_reboot)
    /\ o_progress' = o_progress \o <<100, 0>>
    /\ o_pc' = "idle"
    /\ UNCHANGED <<update_files, item, success_count, skip_count, fail_count,
                   outcomes, summary, auto_reboot, flips, stop_event, exited>>
    /\ UNCHANGED <<gateVars, fpsVars, scanVars, opsVars>>

\* The window of the 60-FPS variant is closed: on_closing calls cleanup(),
\* which sets stop_event and joins every thread for at most one second.
cleanup ==
    /\ variant = "fps"
    /\ s_pc = "idle"
    /\ ~stop_event
    /\ stop_event' = TRUE
    /\ UNCHANGED <<o_pc, update_files, item, success_count, skip_count,
                   fail_count, outcomes, summary, auto_reboot, flips,
                   reboot_issued, exited, o_progress>>
    /\ UNCHANGED <<gateVars, fpsVars, scanVars, opsVars>>

\* The joins of cleanup() have returned (thread ended, or one second passed):
\* root.destroy(), mainloop returns, the interpreter exits and the daemon
\* threads end with it, wherever they are.
ProcessExit ==
    /\ stop_event
    /\ ~exited
    /\ exited' = TRUE
    /\ UNCHANGED <<o_pc, update_files, item, success_count, skip_count,
                   fail_count, outcomes, summary, auto_reboot, flips,
                   reboot_issued, stop_event, o_progress>>
    /\ UNCHANGED <<gateVars, fpsVars, scanVars, opsVars>>

\* =========================================================== external calls
\*
\* Every place where samsoftupdate0.x.py and samsofthdrv0.py start an external
\* process, and the thread that is inside subprocess.run while it runs.

\* One call site: its line, the timeout argument in seconds (0: the call is
\* made without one), the thread that makes the call, and what the method
\* does when TimeoutExpired is raised there: "continue" with its next
\* statement, or "end".
Site(line, timeout, thread, expiry) ==
    [line |-> line, timeout |-> timeout, thread |-> thread, expiry |-> expiry]

HasTimeout(site) == site.timeout > 0

\* samsoftupdate0.x.py
G306 == Site(306, 30, "ui", "continue")         \* check_pswindowsupdate
G351 == Site(351, 120, "worker", "end")         \* ensure_module, install
G419 == Site(419, 180, "worker", "continue")    \* Get-WUList of the scan
G493 == Site(493, 1800, "worker", "continue")   \* download
G572 == Site(572, 120, "worker", "end")         \* pre-check of the online install
G598 == Site(598, 7200, "worker", "continue")   \* Install-WindowsUpdate
G654 == Site(654, 600, "worker", "continue")    \* wusa / dism for one file
G697 == Site(697, 0, "worker", "continue")      \* shutdown /r
G741 == Site(741, 1200, "worker", "end")        \* OfficeC2RClient, silent
G753 == Site(753, 1200, "worker", "end")        \* OfficeC2RClient, second try
G811 == Site(811, 1800, "worker", "continue")   \* .NET updates
G845 == Site(845, 0, "worker", "continue")      \* where winget
G857 == Site(857, 60, "worker", "end")          \* winget list
G869 == Site(869, 600, "worker", "end")         \* winget upgrade
G915 == Site(915, 300, "worker", "continue")    \* vc_redist download

\* samsofthdrv0.py: run_powershell always passes timeout=3600.
H175 == Site(175, 3600, "ui", "continue")       \* check_pswindowsupdate
H193 == Site(193, 3600, "worker", "end")        \* ensure_module, install
H232 == Site(232, 3600, "worker", "continue")   \* Get-WUList of the scan
H274 == Site(274, 3600, "worker", "continue")   \* download
H296 == Site(296, 3600, "worker", "continue")   \* _create_update_manifest
H321 == Site(321, 3600, "worker", "end")        \* pre-check of the online install
H343 == Site(343, 3600, "worker", "continue")   \* Install-WUUpdates
H391 == Site(391, 600, "worker", "continue")    \* wusa / dism for one file
H416 == Site(416, 0, "worker", "continue")      \* shutdown /r
H449 == Site(449, 1200, "worker", "end")        \* OfficeC2RClient
H489 == Site(489, 0, "ui", "continue")          \* where winget, in update_vcredist
H509 == Site(509, 3600, "worker", "continue")   \* _run_powershell_thread

CallOps ==
    {"__init__", "check_updates", "download_updates", "install_updates",
     "install_offline", "update_office", "update_dotnet", "update_vcredist"}

\* With ensure_module in front: the module is there (no call), the install
\* succeeds, or the install fails and the method returns.
WithEnsure(install, rest) == {rest, <<install>> \o rest, <<install>>}

\* The sequences of call sites the method op of samsoftupdate0.x.py can go
\* through, when no call times out.
GatedPaths(op) ==
    CASE op = "__init__" -> {<<G306>>}
      [] op = "check_updates" -> WithEnsure(G351, <<G419>>)
      [] op = "download_updates" -> WithEnsure(G351, <<G493>>)
      [] op = "install_updates" ->
            WithEnsure(G351, <<G572>>) \cup WithEnsure(G351, <<G572, G598>>)
      [] op = "install_offline" ->
            {<<>>, <<G654>>, <<G654, G697>>, <<G654, G654>>, <<G654, G654, G697>>}
      [] op = "update_office" -> {<<>>, <<G741>>, <<G741, G753>>}
      [] op = "update_dotnet" -> WithEnsure(G351, <<G811>>)
      [] op = "update_vcredist" -> {<<G845, G857, G869>>, <<G845, G915, G915>>}

\* The same for samsofthdrv0.py.
HdrvPaths(op) ==
    CASE op = "__init__" -> {<<H175>>}
      [] op = "check_updates" -> WithEnsure(H193, <<H232>>)
      [] op = "download_updates" ->
            WithEnsure(H193, <<H274>>) \cup WithEnsure(H193, <<H274, H296>>)
      [] op = "install_updates" ->
            WithEnsure(H193, <<H321>>) \cup WithEnsure(H193, <<H321, H343>>)
      [] op = "install_offline" ->
            {<<>>, <<H391>>, <<H391, H416>>, <<H391, H391>>, <<H391, H391, H416>>}
      [] op = "update_office" -> {<<>>, <<H449>>}
      [] op = "update_dotnet" -> {<<H509>>}
      [] op = "update_vcredist" -> {<<H489, H509>>}

CallPaths(prog, op) == IF prog = "gated" THEN GatedPaths(op) ELSE HdrvPaths(op)

\* The call in flight, or the next one.
CurrentSite == x_path[x_i + 1]

InitCalls ==
    /\ x_prog = "none"
    /\ x_op = "none"
    /\ x_path = <<>>
    /\ x_i = 0
    /\ x_pc = "idle"
    /\ x_hung = FALSE
    /\ x_expired = 0

\* The program is started: __init__ runs on the main thread, which goes on to
\* root.mainloop() afterwards.
ProgramStart(prog) ==
    /\ x_prog = "none"
    /\ x_prog' = prog
    /\ x_op' = "__init__"
    /\ x_path' \in CallPaths(prog, "__init__")
    /\ x_i' = 0
    /\ x_pc' = "running"
    /\ x_hung' = FALSE
    /\ x_expired' = 0
    /\ UNCHANGED <<gateVars, fpsVars, bodyVars, cfgVars, onlineVars, progVars>>

\* A button is clicked: its method runs, in a background thread or, for a part
\* of update_vcredist in samsofthdrv0.py, in the command callback itself.
MethodStart(op) ==
    /\ x_prog # "none"
    /\ x_pc = "idle"
    /\ op # "__init__"
    /\ x_op' = op
    /\ x_path' \in CallPaths(x_prog, op)
    /\ x_i' = 0
    /\ x_pc' = "running"
    /\ x_hung' = FALSE
    /\ x_expired' = 0
    /\ UNCHANGED x_prog
    /\ UNCHANGED <<gateVars, fpsVars, bodyVars, cfgVars, onlineVars, progVars>>

\* subprocess.run is entered at the next call site; whether the process ever
\* exits on its own is up to the process.
CallStart ==
    /\ x_pc = "running"
    /\ x_i < Len(x_path)
    /\ x_pc' = "calling"
    /\ x_hung' \in BOOLEAN
    /\ UNCHANGED <<x_prog, x_op, x_path, x_i, x_expired>>
    /\ UNCHANGED <<gateVars, fpsVars, bodyVars, cfgVars, onlineVars, progVars>>

\* The process exits and subprocess.run returns.
CallReturn ==
    /\ x_pc = "calling"
    /\ ~x_hung
    /\ x_i' = x_i + 1
    /\ x_pc' = "running"
    /\ UNCHANGED <<x_prog, x_op, x_path, x_hung, x_expired>>
    /\ UNCHANGED <<gateVars, fpsVars, bodyVars, cfgVars, onlineVars, progVars>>

\* subprocess.run raises TimeoutExpired only when it was given a timeout.
Expires(site) == HasTimeout(site)

\* The timeout of the call in flight expires: subprocess.run kills the
\* process and raises TimeoutExpired, which run_powershell, the method or
\* _operation_wrapper catches.
CallTimeout ==
    /\ x_pc = "calling"
    /\ x_hung
    /\ Expires(CurrentSite)
    /\ x_expired' = x_expired + 1
    /\ x_hung' = FALSE
    /\ x_pc' = "running"
    /\ IF CurrentSite.expiry = "end"
       THEN /\ x_path' = SubSeq(x_path, 1, x_i + 1)
            /\ x_i' = x_i + 1
       ELSE /\ x_path' = x_path
            /\ x_i' = x_i + 1
    /\ UNCHANGED <<x_prog, x_op>>
    /\ UNCHANGED <<gateVars, fpsVars, bodyVars, cfgVars, onlineVars, progVars>>

\* The method has made its last call and returns; in samsoftupdate0.x.py the
\* finally block of _operation_wrapper then puts "enable_buttons".
MethodEnd ==
    /\ x_pc = "running"
    /\ x_i = Len(x_path)
    /\ x_pc' = "idle"
    /\ x_op' = "none"
    /\ UNCHANGED <<x_prog, x_path, x_i, x_hung, x_expired>>
    /\ UNCHANGED <<gateVars, fpsVars, bodyVars, cfgVars, onlineVars, progVars>>


\* ============================================================ configuration
\*
\* load_config / save_config and the settings handlers of samsoftupdate0.x.py
\* and samsofthdrv0.py.

RepoPaths == {"REPO_DIR", "D:/repo"}

Categories == {"default", "custom"}

Configs == [repo_path : RepoPaths, update_categories : Categories, auto_reboot : BOOLEAN]

DEFAULT_CONFIG ==
    [repo_path |-> "REPO_DIR", update_categories |-> "default", auto_reboot |-> FALSE]

\* What CONFIG_FILE can be on disk: missing, present but not readable (open
\* raises OSError), present but not JSON (json.load raises), or a stored
\* configuration.
ConfigFiles ==
    [state : {"missing", "unreadable", "corrupt"}, data : {DEFAULT_CONFIG}]
      \cup [state : {"ok"}, data : Configs]

\* A load_config without its except clause: the exception of open or
\* json.load escapes.
LoadConfigNoExcept(f) ==
    IF f.state = "missing" THEN [value |-> DEFAULT_CONFIG, raised |-> FALSE]
    ELSE IF f.state = "ok" THEN [value |-> f.data, raised |-> FALSE]
    ELSE [value |-> DEFAULT_CONFIG, raised |-> TRUE]

\* load_config:
\*   if os.path.exists(CONFIG_FILE):
\*       try: with open(CONFIG_FILE, 'r') as f: return json.load(f)
\*       except ...: return DEFAULT_CONFIG
\*   return DEFAULT_CONFIG
load_config(f) ==
    IF f.state = "missing" THEN [value |-> DEFAULT_CONFIG, raised |-> FALSE]
    ELSE IF f.state = "ok" THEN [value |-> f.data, raised |-> FALSE]
    ELSE [value |-> DEFAULT_CONFIG, raised |-> FALSE]

\* save_config: open(CONFIG_FILE, 'w') and json.dump.  The write succeeds,
\* or open fails and the file is as before, or the dump fails after the file
\* was truncated.
save_config(f, c) ==
    {[state |-> "ok", data |-> c], f, [state |-> "corrupt", data |-> DEFAULT_CONFIG]}

\* A config.get that stores the default it returns (dict.setdefault).
ConfigAfterSetdefault(c) == [c EXCEPT !.auto_reboot = FALSE]

\* self.config after self.config.get("auto_reboot", False) in an operation
\* body: get does not change the dict.
ConfigAfterGet(c) == c

InitCfg ==
    /\ cfg_prog = "none"
    /\ cfg_pc = "nofile"
    /\ cfg_file = [state |-> "missing", data |-> DEFAULT_CONFIG]
    /\ config = DEFAULT_CONFIG
    /\ cfg_raised = FALSE
    /\ cfg_seen = "none"

\* What an earlier run or the user left on disk before the program starts.
ConfigOnDisk(f) ==
    /\ cfg_pc = "nofile"
    /\ cfg_file' = f
    /\ cfg_pc' = "start"
    /\ UNCHANGED <<cfg_prog, config, cfg_raised, cfg_seen>>
    /\ UNCHANGED <<gateVars, fpsVars, bodyVars, callVars, onlineVars, progVars>>

\* __init__: self.config = load_config()
LoadConfig(prog) ==
    /\ cfg_pc = "start"
    /\ cfg_prog' = prog
    /\ config' = load_config(cfg_file).value
    /\ cfg_raised' = load_config(cfg_file).raised
    /\ cfg_pc' = "loaded"
    /\ UNCHANGED <<cfg_file, cfg_seen>>
    /\ UNCHANGED <<gateVars, fpsVars, bodyVars, callVars, onlineVars, progVars>>

\* toggle_auto_reboot, the command of the Auto Reboot checkbutton, with its
\* save_config: self.config["auto_reboot"] = self.auto_reboot_var.get()
ToggleAutoRebootSaved ==
    /\ cfg_pc = "loaded"
    /\ ~cfg_raised
    /\ \E b \in BOOLEAN :
          /\ config' = [config EXCEPT !.auto_reboot = b]
          /\ cfg_file' \in save_config(cfg_file, [config EXCEPT !.auto_reboot = b])
    /\ UNCHANGED <<cfg_prog, cfg_pc, cfg_raised, cfg_seen>>
    /\ UNCHANGED <<gateVars, fpsVars, bodyVars, callVars, onlineVars, progVars>>

\* change_repo_path, the command of the Change Repository button, after the
\* directory dialog returned new_path: self.config["repo_path"] = new_path
change_repo_path(new_path) ==
    /\ cfg_pc = "loaded"
    /\ ~cfg_raised
    /\ config' = [config EXCEPT !.repo_path = new_path]
    /\ cfg_file' \in save_config(cfg_file, [config EXCEPT !.repo_path = new_path])
    /\ UNCHANGED <<cfg_prog, cfg_pc, cfg_raised, cfg_seen>>
    /\ UNCHANGED <<gateVars, fpsVars, bodyVars, callVars, onlineVars, progVars>>

\* A background operation (_install_online_thread, _install_offline_thread)
\* reads self.config.get("auto_reboot", False).
OperationReadsConfig ==
    /\ cfg_pc = "loaded"
    /\ ~cfg_raised
    /\ cfg_seen' = IF config.auto_reboot THEN "true" ELSE "false"
    /\ config' = ConfigAfterGet(config)
    /\ UNCHANGED <<cfg_prog, cfg_pc, cfg_file, cfg_raised>>
    /\ UNCHANGED <<gateVars, fpsVars, bodyVars, callVars, onlineVars, progVars>>


\* =============================================== download and online install
\*
\* _download_thread and _install_online_thread of samsoftupdate0.x.py.

\* What the pre-check of the online install can print: the number of
\* updates, besides everything else a PowerShell call can do.
CountOutcomes ==
    ExtOutcomes \cup [kind : {"completed"}, stdout : {<<"0">>, <<"3">>},
                      stderr : {<<>>}, returncode : {0}]

\* update_count = int(out.strip()) if out.strip().isdigit() else 0
UpdateCount(out) ==
    IF Strip(out) = <<"3">> THEN 3 ELSE 0

\* A download that writes the manifest whenever stderr is empty.
ManifestAfterNoErr(r) == r.err = <<>>

\* _download_thread: "if code == 0: ... self._create_update_manifest(...)"
ManifestAfter(r) == r.code = 0

InitOnline ==
    /\ n_pc = "idle"
    /\ n_op = "none"
    /\ n_ext = NoOutcome
    /\ n_result = NoResult
    /\ n_logs = {}
    /\ n_progress = <<>>
    /\ manifest_calls = 0
    /\ precheck = NoOutcome

\* The operation begins on its background thread: its first log line and
\* update_progress(10).
OnlineStart(op) ==
    /\ variant = "gated"
    /\ s_pc = "idle"
    /\ n_pc = "idle"
    /\ n_op' = op
    /\ n_ext' = NoOutcome
    /\ n_result' = NoResult
    /\ n_logs' = {IF op = "download" THEN "DOWNLOAD" ELSE "INSTALL"}
    /\ n_progress' = <<10>>
    /\ manifest_calls' = 0
    /\ precheck' = NoOutcome
    /\ n_pc' = "ensure"
    /\ UNCHANGED <<bodyVars, gateVars, fpsVars, callVars, cfgVars, progVars>>

\* ensure_module: returns True at once when the module is available, else
\* makes its one install call.  When it fails the operation logs
\* "[ERROR] Cannot proceed without PSWindowsUpdate module.", calls
\* update_progress(0) and returns.
OnlineEnsure ==
    /\ n_pc = "ensure"
    /\ IF ~NeedsInstall(pswindowsupdate_available)
       THEN /\ n_pc' = "command"
            /\ UNCHANGED <<pswindowsupdate_available, n_ext, n_result, n_logs, n_progress>>
       ELSE \E o \in ExtOutcomes :
              /\ n_ext' = o
              /\ n_result' = run_powershell(o)
              /\ IF InstallSucceeded(variant, run_powershell(o))
                 THEN /\ pswindowsupdate_available' = TRUE
                      /\ n_logs' = n_logs \cup {"OK"}
                      /\ n_progress' = n_progress
                      /\ n_pc' = "command"
                 ELSE /\ pswindowsupdate_available' = pswindowsupdate_available
                      /\ n_logs' = n_logs \cup {"ERROR"}
                      /\ n_progress' = Append(n_progress, 0)
                      /\ n_pc' = "idle"
    /\ UNCHANGED <<n_op, manifest_calls, precheck>>
    /\ UNCHANGED <<variant, s_pc, scans, progress_seq, last_line, ext, result,
                   install_calls, main_calls, was_available>>
    /\ UNCHANGED <<offVars, gateVars, fpsVars, callVars, cfgVars, progVars>>

\* _download_thread from update_progress(20) to its end: the download
\* command, the lines it printed, "[DONE]" and the manifest or "[ERROR]
\* Download failed", then update_progress(100), sleep, update_progress(0).
DownloadCommand ==
    /\ n_pc = "command"
    /\ n_op = "download"
    /\ \E o \in ExtOutcomes :
          /\ n_ext' = o
          /\ n_result' = run_powershell(o)
          /\ manifest_calls' = IF ManifestAfter(run_powershell(o)) THEN 1 ELSE 0
          /\ n_logs' = n_logs
                \cup (IF run_powershell(o).out # <<>> THEN {"LINE"} ELSE {})
                \cup (IF run_powershell(o).code = 0 THEN {"DONE"} ELSE {"ERROR"})
                \cup (IF ManifestAfter(run_powershell(o)) THEN {"MANIFEST"} ELSE {})
    /\ n_progress' = n_progress \o <<20, 30, 50, 80, 100, 0>>
    /\ n_pc' = "idle"
    /\ UNCHANGED <<n_op, precheck>>
    /\ UNCHANGED <<bodyVars, gateVars, fpsVars, callVars, cfgVars, progVars>>

\* _install_online_thread: update_progress(30) and the pre-check that counts
\* the updates.  With a count of 0 it logs "[OK] No updates available to
\* install. System is up to date.", goes to 100 and 0 and returns.
InstallPrecheck ==
    /\ n_pc = "command"
    /\ n_op = "install"
    /\ \E o \in CountOutcomes :
          /\ n_ext' = o
          /\ precheck' = o
          /\ n_result' = run_powershell(o)
          /\ IF UpdateCount(run_powershell(o).out) = 0
             THEN /\ n_logs' = n_logs \cup {"UPTODATE"}
                  /\ n_progress' = n_progress \o <<30, 100, 0>>
                  /\ n_pc' = "idle"
             ELSE /\ n_logs' = n_logs \cup {"INFO"}
                  /\ n_progress' = n_progress \o <<30, 50>>
                  /\ n_pc' = "installing"
    /\ UNCHANGED <<n_op, manifest_calls>>
    /\ UNCHANGED <<bodyVars, gateVars, fpsVars, callVars, cfgVars, progVars>>

\* _install_online_thread: the install command, run without capturing its
\* output, and the report of its exit code.
InstallCommand ==
    /\ n_pc = "installing"
    /\ \E o \in ExtOutcomes :
          /\ n_ext' = o
          /\ n_result' = [run_powershell(o) EXCEPT !.out = <<>>,
                            !.err = IF o.kind = "completed" THEN <<>> ELSE @]
          /\ n_logs' = n_logs \cup (IF run_powershell(o).code = 0 THEN {"DONE"} ELSE {"ERROR"})
    /\ n_progress' = n_progress \o <<90, 100, 0>>
    /\ n_pc' = "idle"
    /\ UNCHANGED <<n_op, manifest_calls, precheck>>
    /\ UNCHANGED <<bodyVars, gateVars, fpsVars, callVars, cfgVars, progVars>>



\* ================================================================ program.py
\*
\* The two buttons of program.py and the threads they start.  Both thread
\* functions call the widgets themselves; there is no queue and no gate.

ProgThreads == 1 .. MaxRuns

\* What one PowerShell process writes; "raised" is a subprocess.run that
\* raises (no powershell on the PATH), which run_powershell does not catch.
ProgOutcomes ==
    [kind : {"completed"}, stdout : {<<>>, <<"ws">>, <<"KB5030211">>},
     stderr : {<<>>, <<"ws">>, <<"Access denied">>}]
    \cup {[kind |-> "raised", stdout |-> <<>>, stderr |-> <<>>]}

\* run_powershell of program.py:
\*   return completed.stdout.strip(), completed.stderr.strip()
prog_run_powershell(o) == [out |-> Strip(o.stdout), err |-> Strip(o.stderr)]

NoOutput == [out |-> <<>>, err |-> <<>>]

\* A check that enables the button whenever there is output.
InstallBtnAfterCheckIgnoresErr(btn, r) == IF r.out # <<>> THEN "normal" ELSE btn

\* install_btn after the command of _check_updates_thread returned r:
\*   if err: return / if not out.strip(): log / else: install_btn.config(state="normal")
InstallBtnAfterCheck(btn, r) ==
    IF r.err # <<>> THEN btn
    ELSE IF Strip(r.out) = <<>> THEN btn
    ELSE "normal"

\* create_ui: install_btn is created with state="disabled".
InitProg ==
    /\ install_btn = "disabled"
    /\ p_started = 0
    /\ p_kind = [t \in ProgThreads |-> "none"]
    /\ p_pc = [t \in ProgThreads |-> "unborn"]
    /\ p_out = [t \in ProgThreads |-> NoOutput]

\* check_updates: the command of check_btn, which is never disabled.
prog_check_updates ==
    /\ p_started < MaxRuns
    /\ p_started' = p_started + 1
    /\ p_kind' = [p_kind EXCEPT ![p_started + 1] = "check"]
    /\ p_pc' = [p_pc EXCEPT ![p_started + 1] = "ensure"]
    /\ UNCHANGED <<install_btn, p_out>>
    /\ UNCHANGED <<gateVars, fpsVars, bodyVars, callVars, cfgVars, onlineVars>>

\* install_updates: the command of install_btn; Tk invokes it only while the
\* button is in state "normal".
prog_install_updates ==
    /\ install_btn = "normal"
    /\ p_started < MaxRuns
    /\ p_started' = p_started + 1
    /\ p_kind' = [p_kind EXCEPT ![p_started + 1] = "install"]
    /\ p_pc' = [p_pc EXCEPT ![p_started + 1] = "ensure"]
    /\ UNCHANGED <<install_btn, p_out>>
    /\ UNCHANGED <<gateVars, fpsVars, bodyVars, callVars, cfgVars, onlineVars>>

\* ensure_module, "Get-Module -ListAvailable": with empty output the module
\* is installed next, otherwise ensure_module returns True.
ProgEnsureCheck(t, o) ==
    /\ p_pc[t] = "ensure"
    /\ IF o.kind = "raised"
       THEN /\ p_pc' = [p_pc EXCEPT ![t] = "dead"]
            /\ p_out' = p_out
       ELSE /\ p_out' = [p_out EXCEPT ![t] = prog_run_powershell(o)]
            /\ p_pc' = [p_pc EXCEPT ![t] =
                          IF Strip(prog_run_powershell(o).out) = <<>>
                          THEN "ensure_install" ELSE "command"]
    /\ UNCHANGED <<install_btn, p_started, p_kind>>
    /\ UNCHANGED <<gateVars, fpsVars, bodyVars, callVars, cfgVars, onlineVars>>

\* ensure_module, "Install-Module PSWindowsUpdate": with err it returns
\* False and the thread function returns.
ProgEnsureInstall(t, o) ==
    /\ p_pc[t] = "ensure_install"
    /\ IF o.kind = "raised"
       THEN /\ p_pc' = [p_pc EXCEPT ![t] = "dead"]
            /\ p_out' = p_out
       ELSE /\ p_out' = [p_out EXCEPT ![t] = prog_run_powershell(o)]
            /\ p_pc' = [p_pc EXCEPT ![t] =
                          IF prog_run_powershell(o).err # <<>>
                          THEN "done" ELSE "command"]
    /\ UNCHANGED <<install_btn, p_started, p_kind>>
    /\ UNCHANGED <<gateVars, fpsVars, bodyVars, callVars, cfgVars, onlineVars>>

\* _check_updates_thread from its Get-WindowsUpdate command to its end.
ProgCheckCommand(t, o) ==
    /\ p_pc[t] = "command"
    /\ p_kind[t] = "check"
    /\ IF o.kind = "raised"
       THEN /\ p_pc' = [p_pc EXCEPT ![t] = "dead"]
            /\ UNCHANGED <<p_out, install_btn>>
       ELSE /\ p_out' = [p_out EXCEPT ![t] = prog_run_powershell(o)]
            /\ install_btn' = InstallBtnAfterCheck(install_btn, prog_run_powershell(o))
            /\ p_pc' = [p_pc EXCEPT ![t] = "done"]
    /\ UNCHANGED <<p_started, p_kind>>
    /\ UNCHANGED <<gateVars, fpsVars, bodyVars, callVars, cfgVars, onlineVars>>

\* _install_updates_thread, its Install-WindowsUpdate command: the result is
\* logged and a message box is shown, showerror with err, showinfo without.
ProgInstallCommand(t, o) ==
    /\ p_pc[t] = "command"
    /\ p_kind[t] = "install"
    /\ IF o.kind = "raised"
       THEN /\ p_pc' = [p_pc EXCEPT ![t] = "dead"]
            /\ p_out' = p_out
       ELSE /\ p_out' = [p_out EXCEPT ![t] = prog_run_powershell(o)]
            /\ p_pc' = [p_pc EXCEPT ![t] =
                          IF prog_run_powershell(o).err # <<>>
                          THEN "box_error" ELSE "box_info"]
    /\ UNCHANGED <<install_btn, p_started, p_kind>>
    /\ UNCHANGED <<gateVars, fpsVars, bodyVars, callVars, cfgVars, onlineVars>>

\* The message box is dismissed: after showerror the function returns, after
\* showinfo it runs self.install_btn.config(state="disabled").
ProgBoxDismissed(t) ==
    /\ p_pc[t] \in {"box_error", "box_info"}
    /\ install_btn' = IF p_pc[t] = "box_info" THEN "disabled" ELSE install_btn
    /\ p_pc' = [p_pc EXCEPT ![t] = "done"]
    /\ UNCHANGED <<p_started, p_kind, p_out>>
    /\ UNCHANGED <<gateVars, fpsVars, bodyVars, callVars, cfgVars, onlineVars>>

\* program.py: its buttons and threads.
NextProg ==
    \/ prog_check_updates
    \/ prog_install_updates
    \/ \E t \in ProgThreads, o \in ProgOutcomes : ProgEnsureCheck(t, o)
    \/ \E t \in ProgThreads, o \in ProgOutcomes : ProgEnsureInstall(t, o)
    \/ \E t \in ProgThreads, o \in ProgOutcomes : ProgCheckCommand(t, o)
    \/ \E t \in ProgThreads, o \in ProgOutcomes : ProgInstallCommand(t, o)
    \/ \E t \in ProgThreads : ProgBoxDismissed(t)

\* ------------------------------------------------------------ specification

Init == InitGate /\ InitFps /\ InitScan /\ InitOff /\ InitCalls /\ InitCfg /\ InitOnline
          /\ InitProg

Next ==
    \/ \E op \in Operations : StartRequest(op)
    \/ \E t \in Threads : ThreadStep(t)
    \/ PollStart
    \/ PollGet
    \/ PollEmpty

Spec == Init /\ [][Next]_vars

\* The Tk main loop runs every scheduled callback, and the OS schedules every
\* runnable thread: weak fairness of the poll and of each thread's next step.
\* A click is an input and is not forced.
Fairness ==
    /\ WF_vars(PollStart)
    /\ WF_vars(PollGet)
    /\ WF_vars(PollEmpty)
    /\ \A t \in Threads : WF_vars(ThreadStep(t))

FairSpec == Spec /\ Fairness

\* The gated variant with handlers of process_message_queue that may raise.
NextPollFault == Next \/ PollRaise

SpecPollFault == Init /\ [][NextPollFault]_vars

\* The gated variant with its window-close handler.  Once the window is
\* destroyed mainloop returns and the process, daemon threads included, ends.
NextClose ==
    \/ (window # "destroyed" /\ \E op \in Operations : StartRequest(op))
    \/ (window # "destroyed" /\ \E t \in Threads : ThreadStep(t))
    \/ (window # "destroyed" /\ PollStart)
    \/ (window # "destroyed" /\ PollGet)
    \/ (window # "destroyed" /\ PollEmpty)
    \/ on_closing
    \/ \E ok \in BOOLEAN : QuitAnswer(ok)

SpecClose == Init /\ [][NextClose]_vars

\* One of the two queue-based programs runs: samsoftupdate0.x.py, whose steps
\* are those of Next, or the 60-FPS variant, whose steps are those of NextFps.
\* The machine of the program that was not started stays in its initial state.
NextDisplay ==
    \/ (InitFps /\ \E op \in Operations : StartRequest(op))
    \/ (InitFps /\ \E t \in Threads : ThreadStep(t))
    \/ (InitFps /\ PollStart)
    \/ (InitFps /\ PollGet)
    \/ (InitFps /\ PollEmpty)
    \/ (InitGate /\ WorkerLogPut)
    \/ (InitGate /\ WorkerLogStatus)
    \/ (InitGate /\ WorkerProgress)
    \/ (InitGate /\ toggle_performance)
    \/ (InitGate /\ ToggleLogStatus)
    \/ (InitGate /\ TickStart)
    \/ (InitGate /\ TickGetLog)
    \/ (InitGate /\ TickBatch)
    \/ (InitGate /\ TickApply)
    \/ (InitGate /\ TickEnd)

SpecDisplay == Init /\ [][NextDisplay]_vars

\* The 60-FPS variant while its display sinks work.
NextFps ==
    \/ WorkerLogPut
    \/ WorkerLogStatus
    \/ WorkerProgress
    \/ toggle_performance
    \/ ToggleLogStatus
    \/ TickStart
    \/ TickGetLog
    \/ TickBatch
    \/ TickApply
    \/ TickEnd

SpecFps == Init /\ [][NextFps]_vars

\* The 60-FPS variant with display sinks that may raise.
NextFpsFault == NextFps \/ TickApplyRaises

SpecFpsFault == Init /\ [][NextFpsFault]_vars

\* One program of the three, its start-up probe and its scan operations.
NextScan ==
    \/ \E v \in Variants : Launch(v)
    \/ ScanStart
    \/ EnsureAvailable
    \/ EnsureInstall
    \/ ScanNoModule
    \/ ScanCommand
    \/ ScanReport

SpecScan == Init /\ [][NextScan]_vars

\* One program of the three and its offline install.
NextOffline ==
    \/ \E v \in Variants : Launch(v)
    \/ toggle_auto_reboot
    \/ \E m \in 1 .. MaxFiles : OfflineStart(m)
    \/ OfflineNextItem
    \/ \E o \in ItemOutcomes : OfflineInstall(o)
    \/ OfflineSummary
    \/ OfflineReboot
    \/ cleanup
    \/ ProcessExit

SpecOffline == Init /\ [][NextOffline]_vars

\* The external calls of samsoftupdate0.x.py and samsofthdrv0.py.
NextCalls ==
    \/ \E prog \in {"gated", "hdrv"} : ProgramStart(prog)
    \/ \E op \in CallOps : MethodStart(op)
    \/ CallStart
    \/ CallReturn
    \/ CallTimeout
    \/ MethodEnd

SpecCalls == Init /\ [][NextCalls]_vars

\* The configuration of samsoftupdate0.x.py and samsofthdrv0.py.
NextCfg ==
    \/ \E f \in ConfigFiles : ConfigOnDisk(f)
    \/ \E prog \in {"gated", "hdrv"} : LoadConfig(prog)
    \/ ToggleAutoRebootSaved
    \/ \E new_path \in RepoPaths : change_repo_path(new_path)
    \/ OperationReadsConfig

SpecCfg == Init /\ [][NextCfg]_vars

\* samsoftupdate0.x.py from its start: downloads and online installs.
NextOnline ==
    \/ Launch("gated")
    \/ \E op \in {"download", "install"} : OnlineStart(op)
    \/ OnlineEnsure
    \/ DownloadCommand
    \/ InstallPrecheck
    \/ InstallCommand

SpecOnline == Init /\ [][NextOnline]_vars

\* program.py from its start.
SpecProg == Init /\ [][NextProg]_vars

\* ===================================================== gated variant: claims

\* An accepted operation is in progress: a thread is past the gate of
\* _operation_wrapper and has not yet put its "enable_buttons".
OperationRunning == \E t \in Threads : pc[t] \in {"body", "except", "finally"}

\* OperationState Idle as the program holds it, with the controls usable.
Idle == ~running_operation /\ buttons_enabled

\* Every event thread t has put has been handed to its handler.
Finished(t) == pc[t] = "done" /\ handled_n[t] = sent_n[t]

\* No thread is at work and nothing is left on message_queue.
Quiescent ==
    /\ \A t \in Threads : pc[t] \in {"unborn", "done"}
    /\ message_queue = <<>>

\* The running numbers of producer p's events still on message_queue, in
\* queue order.
PendingNumbers(p) ==
    LET FromP(e) == e.src = p
        s == SelectSeq(message_queue, FromP)
    IN  [i \in 1 .. Len(s) |-> s[i].n]

\* C1 (as claimed): at most one operation body (operation_func) is executing
\* at any instant, under every interleaving of clicks, threads and polls.
C1_SingleFlight == Cardinality({t \in Threads : pc[t] = "body"}) <= 1

\* C2: every accepted operation, whether its body returns or raises, is
\* followed by a state in which all its events have been applied and the
\* program is Idle with the controls enabled; whenever all runs have ended and
\* the queue is drained the program is Idle; and in an Idle state a further
\* start request is taken.
C2_ReturnsToIdle ==
    /\ \A t \in Threads : (pc[t] = "body") ~> (Finished(t) /\ Idle)
    /\ [](Quiescent => Idle)
    /\ []((Idle /\ ui_pc = "idle" /\ requests < MaxThreads)
            => ENABLED (\E op \in Operations : StartRequest(op)))

\* C2 witness: two runs have ended, one of them by an exception (its error
\* line was the last log line applied), everything is drained, state Idle.
C2_Witness ==
    /\ \A t \in Threads : Finished(t)
    /\ requests = MaxThreads
    /\ status_var = "error"
    /\ Idle

\* C3 (as claimed): a start request made while an operation is running is
\* rejected at once: it creates no background thread and a warning log event is
\* put on the queue.
C3_RejectedAtOnce ==
    [][(requests' = requests + 1 /\ OperationRunning)
         => /\ pc' = pc
            /\ Len(message_queue') = Len(message_queue) + 1
            /\ message_queue'[Len(message_queue')].data = "warning"]_vars

\* C4: every event put on message_queue is handed to a handler exactly once
\* and in the order its producer put it: for each producer the events still
\* queued are exactly those numbered after the last one handled, in order.
C4_ExactlyOnceInOrder ==
    \A p \in Producers :
        PendingNumbers(p) = [i \in 1 .. (sent_n[p] - handled_n[p]) |-> handled_n[p] + i]

\* C4 witness: two producers have each had two or more events handled while
\* events of both are still queued.
C4_Witness ==
    \E p, q \in Producers :
        /\ p # q
        /\ handled_n[p] >= 2 /\ handled_n[q] >= 2
        /\ PendingNumbers(p) # <<>> /\ PendingNumbers(q) # <<>>


\* C12: an operation whose body emitted Progress and then raised an exception
\* that _operation_wrapper caught has ended with a Progress event of 0: the
\* last value the operation passed to update_progress is 0.
C12_FailureResetsProgress ==
    \A t \in Threads :
        (pc[t] = "done" /\ raised[t] /\ last_progress[t] # NoProgress)
            => last_progress[t] = 0

\* C20: the window is destroyed without a prompt only when no operation body
\* is executing.
C20_PromptWhileRunning ==
    [][(window = "open" /\ window' = "destroyed")
          => ~(\E t \in Threads : pc[t] = "body")]_vars

\* ---------------------------------------------- claims of the 60-FPS variant

\* The lines not yet handed to batch_log_update, oldest first.
PendingLines ==
    (IF fps_pc = "log_phase" THEN log_batch ELSE <<>>) \o log_queue

\* The line numbers of producer p among a sequence of lines, in order.
RECURSIVE LineNumbers(_, _)
LineNumbers(s, p) ==
    IF s = <<>> THEN <<>>
    ELSE IF Head(s).src = p THEN <<Head(s).k>> \o LineNumbers(Tail(s), p)
         ELSE LineNumbers(Tail(s), p)

\* The call numbers of producer p among a sequence of closures, in order.
RECURSIVE CallNumbers(_, _)
CallNumbers(s, p) ==
    IF s = <<>> THEN <<>>
    ELSE IF Head(s).src = p THEN <<Head(s).n>> \o CallNumbers(Tail(s), p)
         ELSE CallNumbers(Tail(s), p)

\* C5: what one background thread emits through log() and update_progress()
\* reaches the display in the order of emission, log lines and progress or
\* status updates relative to each other included.
C5_EmitOrder == ~inversion

\* C6: an exception raised while one event is applied does not end the
\* ticking: after a failure a tick is still in progress or scheduled.
C6_TicksSurviveFault ==
    sink_faults > 0 => fps_pc \in {"scheduled", "toggle", "log_phase", "ui_phase"}

\* C7: a tick takes lines from log_queue only at its head, one at a time and
\* at most LogBatchCap of them; the lines not yet rendered stay queued in
\* order, none dropped: per producer they are the consecutive line numbers
\* after the last one rendered.
C7_BatchCap ==
    /\ [](Len(log_batch) <= LogBatchCap)
    /\ [](\A p \in FpsProducers :
            LineNumbers(PendingLines, p)
              = [i \in 1 .. (lines_n[p] - taken_n[p]) |-> taken_n[p] + i])
    /\ [][log_queue' # log_queue /\ Len(log_queue') <= Len(log_queue)
            => /\ fps_pc = "log_phase"
               /\ log_queue # <<>>
               /\ Len(log_batch) < LogBatchCap
               /\ log_batch' = Append(log_batch, Head(log_queue))
               /\ log_queue' = Tail(log_queue)]_vars
    /\ [][fps_pc = "log_phase" /\ log_queue = <<>> => log_queue' = <<>> \/ fps_pc' = "log_phase"]_vars

\* C7 witness: a tick has taken a full batch and lines are left in the queue
\* while lines of an earlier tick are already rendered.
C7_Witness ==
    /\ fps_pc = "log_phase"
    /\ Len(log_batch) = LogBatchCap
    /\ log_queue # <<>>
    /\ taken_n[UiThread] + taken_n[Worker] >= LogBatchCap

\* C8: a tick applies the closures of ui_update_queue from its head; once the
\* clock read after a closure exceeds the budget of 80% of the frame, the
\* tick ends and the rest stays queued in order (per producer the consecutive
\* call numbers after the last one applied); on an empty queue the tick ends
\* without waiting.
C8_TimeBox ==
    /\ [][fps_pc = "ui_phase" /\ ui_update_queue' # ui_update_queue
              /\ Len(ui_update_queue') <= Len(ui_update_queue)
            => /\ ui_update_queue' = Tail(ui_update_queue)
               /\ (elapsed' > FrameBudget => fps_pc' = "scheduled")
               /\ (elapsed' <= FrameBudget => fps_pc' = "ui_phase")]_vars
    /\ [](\A p \in FpsProducers :
            CallNumbers(ui_update_queue, p)
              = [i \in 1 .. (calls_n[p] - applied_n[p]) |-> applied_n[p] + i])
    /\ []((fps_pc = "ui_phase" /\ ui_update_queue = <<>>) => ENABLED TickEnd)

\* C8 witness: only the two closures of start-up were ever queued; the first
\* was applied, the budget was exceeded, and the tick ended with the second
\* still queued.
C8_Witness ==
    /\ calls_n[Worker] = 0
    /\ toggles = 0
    /\ fps_pc = "scheduled"
    /\ elapsed > FrameBudget
    /\ applied_n[UiThread] = 1
    /\ Len(ui_update_queue) = 1

\* C9: after M lines were appended to the log buffer of capacity
\* LOG_BUFFER_SIZE, in whatever batches, it holds exactly the last
\* min(M, LOG_BUFFER_SIZE) of them in arrival order.
C9_BufferWindow ==
    /\ log_buffer = LastK(buffered, LOG_BUFFER_SIZE)
    /\ Len(log_buffer) = IF Len(buffered) <= LOG_BUFFER_SIZE
                         THEN Len(buffered) ELSE LOG_BUFFER_SIZE

\* C9 witness: more lines were appended than the buffer holds, in more than
\* one batch.
C9_Witness ==
    /\ Len(buffered) > LOG_BUFFER_SIZE
    /\ log_buffer # <<>>
    /\ log_buffer[1] # buffered[1]

\* C10: the display changes only when a tick renders a non-empty batch; in
\* performance mode it then is the last min(VisibleLines, size) entries of
\* the log buffer, in standard mode the batch is appended to what was shown.
C10_DisplayPolicy ==
    [][IF fps_pc = "log_phase" /\ fps_pc' = "ui_phase" /\ log_batch # <<>>
       THEN IF perf_mode_var
            THEN /\ Len(fps_log_text') = IF Len(log_buffer') <= VisibleLines
                                         THEN Len(log_buffer') ELSE VisibleLines
                 /\ \A i \in 1 .. Len(fps_log_text') :
                       fps_log_text'[i] =
                           log_buffer'[Len(log_buffer') - Len(fps_log_text') + i]
            ELSE fps_log_text' = fps_log_text \o log_batch
       ELSE fps_log_text' = fps_log_text]_vars

\* C10 witness: in performance mode a tick has just rendered a batch from a
\* buffer that holds more lines than the display shows.
C10_Witness ==
    /\ perf_mode_var
    /\ fps_pc = "ui_phase"
    /\ log_batch # <<>>
    /\ Len(log_buffer) > VisibleLines
    /\ Len(fps_log_text) = VisibleLines

\* ------------------------------------------- claims of the operation bodies

\* A scan operation has run to its end.
ScanEnded == s_pc = "idle" /\ scans > 0

NonDecreasing(seq) == \A i \in 1 .. Len(seq) - 1 : seq[i] <= seq[i + 1]

\* Starts at a value >= 0, never decreases before the last value, reaches
\* exactly 100 and is reset to 0 right after it.
RisesTo100ThenReset(seq) ==
    /\ Len(seq) >= 2
    /\ seq[1] >= 0
    /\ NonDecreasing(SubSeq(seq, 1, Len(seq) - 1))
    /\ seq[Len(seq) - 1] = 100
    /\ seq[Len(seq)] = 0

\* C11 as stated: on every execution path of the scan operation the Progress
\* values start at a value >= 0, do not decrease until the final reset, reach
\* exactly 100 and only then are reset to 0.
C11_ProgressOnEveryPath == ScanEnded => RisesTo100ThenReset(progress_seq)

\* C11 amended: the Progress values of a scan whose ensure_module succeeded
\* start at a value >= 0, do not decrease until the final reset, reach exactly
\* 100 and only then are reset to 0; a scan whose ensure_module failed emits
\* 10 and then 0.  While a scan runs its values so far do not decrease.
C11_ProgressWhenModuleEnsured ==
    /\ (ScanEnded /\ main_calls = 1) => RisesTo100ThenReset(progress_seq)
    /\ (ScanEnded /\ main_calls = 0) => progress_seq = <<10, 0>>
    /\ s_pc \in {"ensure", "command", "nomodule", "report"}
          => /\ progress_seq # <<>>
             /\ progress_seq[1] >= 0
             /\ NonDecreasing(progress_seq)
             /\ \A i \in 1 .. Len(progress_seq) : progress_seq[i] < 100

\* C11 witness: the 60-FPS scan installed the module on demand and ran to its
\* end through all three ramps.
C11_Witness ==
    /\ ScanEnded
    /\ variant = "fps"
    /\ install_calls = 1
    /\ main_calls = 1
    /\ Len(progress_seq) > 10

\* A scan has run to its end and its main command was invoked.
ScanRanCommand == ScanEnded /\ main_calls = 1

LastProgress == progress_seq[Len(progress_seq)]

\* C13: when the main command of a scan returns empty output, empty error
\* text and exit code 0, the last line the scan logs says the system is up to
\* date and its last Progress value is 0.
C13_EmptyResultUpToDate ==
    (ScanRanCommand /\ result = [out |-> <<>>, err |-> <<>>, code |-> 0])
        => /\ last_line = LogLine("OK", <<"System is up to date">>)
           /\ LastProgress = 0

\* C13 witness: the module was available from the start and the process
\* printed nothing but white space.
C13_Witness ==
    /\ ScanRanCommand
    /\ was_available
    /\ ext.kind = "completed" /\ ext.stdout = <<"ws">>
    /\ result = [out |-> <<>>, err |-> <<>>, code |-> 0]
    /\ last_line.tag = "OK"

\* C14: when the main command of a scan times out, run_powershell's result and
\* the scan's last log line carry the timeout message and the last Progress
\* value is 0; neither carries it when the command completed with a non-zero
\* exit code.  (The external process is taken not to print that message.)
C14_TimeoutClassified ==
    /\ (ScanRanCommand /\ ext.kind = "timeout")
          => /\ Contains("Command timed out", result.err)
             /\ last_line.tag = "ERROR"
             /\ Contains("Command timed out", last_line.text)
             /\ LastProgress = 0
    /\ (ScanRanCommand /\ ext.kind = "completed" /\ ext.returncode # 0)
          => /\ ~Contains("Command timed out", result.err)
             /\ ~Contains("Command timed out", last_line.text)
             /\ LastProgress = 0

\* C14 witness: the gated scan ended after its main command timed out.
C14_Witness ==
    /\ ScanRanCommand
    /\ variant = "gated"
    /\ ext.kind = "timeout"
    /\ last_line.tag = "ERROR"

\* C17: an operation makes at most one on-demand install attempt, and none
\* when the module was available; when the attempt fails the operation logs
\* an error, resets Progress to 0 and ends without invoking its main command.
C17_SingleInstallAttempt ==
    /\ install_calls <= 1
    /\ (scans > 0 /\ was_available) => install_calls = 0
    /\ s_pc = "nomodule" => (install_calls = 1 /\ main_calls = 0)
    /\ (ScanEnded /\ ~was_available /\ ~InstallSucceeded(variant, result) /\ main_calls = 0)
          => /\ install_calls = 1
             /\ last_line.tag = "ERROR"
             /\ LastProgress = 0
    /\ (ScanEnded /\ main_calls = 0) => (~was_available /\ ~pswindowsupdate_available)

\* C17 witness: the gated scan ended after its one install attempt failed.
C17_Witness ==
    /\ ScanEnded
    /\ variant = "gated"
    /\ install_calls = 1
    /\ main_calls = 0
    /\ last_line = LogLine("ERROR", <<"Cannot proceed without PSWindowsUpdate module">>)

\* C18: once pswindowsupdate_available is True it stays True, and an
\* ensure_module call made while it is True returns True without any
\* external call.
C18_AvailableIsStable ==
    /\ [][pswindowsupdate_available => pswindowsupdate_available']_vars
    /\ [][(pswindowsupdate_available /\ s_pc = "ensure")
            => (s_pc' = "command" /\ install_calls' = install_calls /\ ext' = ext)]_vars

\* C18 witness: the second scan of a run found the flag set and went on to
\* its main command without an install call.
C18_Witness ==
    /\ scans = 2
    /\ s_pc = "command"
    /\ was_available
    /\ install_calls = 0
    /\ ext.kind = "none"

\* --------------------------------------------- claims of the offline install

\* How many of the files installed so far had an outcome in S.
RECURSIVE CountIn(_, _)
CountIn(seq, S) ==
    IF seq = <<>> THEN 0
    ELSE (IF Head(seq) \in S THEN 1 ELSE 0) + CountIn(Tail(seq), S)

\* C15: in the gated offline install every file dealt with is counted in
\* exactly one of success / skipped / failed, the summary's counts add up to
\* the number of files, and success is the number of files whose installer
\* returned exit code 0.
C15_CountsAddUp ==
    variant = "gated" =>
        /\ success_count = CountIn(outcomes, {"exit0"})
        /\ skip_count = CountIn(outcomes, {"already"})
        /\ fail_count = CountIn(outcomes, {"other", "timeout", "exception"})
        /\ success_count + skip_count + fail_count = item
        /\ summary # NoSummary
              => /\ summary.success + summary.skipped + summary.failed = update_files
                 /\ summary.total = update_files
                 /\ summary.success = CountIn(outcomes, {"exit0"})
                 /\ Len(outcomes) = update_files

\* C15 witness: a summary over MaxFiles files with a success, a skipped file
\* and a timeout among them.
C15_Witness ==
    /\ variant = "gated"
    /\ summary # NoSummary
    /\ update_files = MaxFiles
    /\ summary.success = 1
    /\ summary.skipped = 1
    /\ summary.failed = MaxFiles - 2
    /\ outcomes[MaxFiles] = "timeout"

\* C16: the reboot command is issued only at the end of the batch, with at
\* least one file installed successfully and the auto_reboot flag true at
\* that moment.
C16_RebootOnlyAfterSuccess ==
    /\ [][(reboot_issued' /\ ~reboot_issued)
            => (o_pc = "reboot" /\ success_count > 0 /\ auto_reboot
                  /\ CountIn(outcomes, {"exit0"}) > 0)]_vars
    /\ [](reboot_issued => (success_count > 0 /\ summary # NoSummary))

\* C16 witness: a reboot was issued after a batch with a single success and
\* the flag switched on while the program ran.
C16_Witness ==
    /\ reboot_issued
    /\ update_files = MaxFiles
    /\ success_count = 1
    /\ flips = 1
    /\ auto_reboot

\* C19: in the 60-FPS variant an offline install under way when stop_event is
\* set still ends with its summary line: when the process has ended, the
\* summary of every install that was started has been emitted.
C19_StopEndsWithSummary ==
    (variant = "fps" /\ exited /\ update_files > 0) => summary # NoSummary

\* ----------------------------------------------- claims of the external calls

\* C21: in samsoftupdate0.x.py every external call made by an operation has
\* an explicit timeout: whenever an operation is inside subprocess.run, that
\* call was given a timeout, so that a process that never exits cannot keep
\* the operation from ending.
C21_EveryCallHasTimeout ==
    (x_prog = "gated" /\ x_op # "__init__" /\ x_pc = "calling")
        => HasTimeout(CurrentSite)

\* C22: in samsoftupdate0.x.py and samsofthdrv0.py no external call is made
\* on the UI thread: whenever a thread is inside subprocess.run, it is a
\* background thread.
C22_NoCallOnUiThread ==
    x_pc = "calling" => CurrentSite.thread = "worker"

\* --------------------------------------------------- claims of both queues

\* C23: in samsoftupdate0.x.py and in the 60-FPS variant no step of a
\* background thread changes what is displayed (log text, progress value,
\* status text, button state); such a step changes the queues only.
C23_ThreadsOnlyEnqueue ==
    [][/\ (\E t \in Threads : ThreadStep(t))
            => UNCHANGED <<log_text, progress_var, status_var, buttons_enabled>>
       /\ (WorkerLogPut \/ WorkerLogStatus \/ WorkerProgress)
            => UNCHANGED <<fps_log_text, fps_progress_var, fps_status_var>>]_vars

\* A background thread has called update_progress(100) and the display still
\* shows the old value: the event waits on message_queue.
C23_Witness ==
    /\ \E t \in Threads : last_progress[t] = 100
    /\ progress_var # 100
    /\ \E i \in 1 .. Len(message_queue) :
          message_queue[i].type = "progress" /\ message_queue[i].data = 100

\* ------------------------------------------------ claims of the configuration

\* C24: in samsoftupdate0.x.py the configuration, once loaded, is changed
\* only by the settings handlers toggle_auto_reboot and change_repo_path on
\* the UI thread: a step of a background operation reads it and leaves every
\* key as it was.
C24_ConfigWrittenBySettingsOnly ==
    [][(cfg_prog = "gated" /\ cfg_pc = "loaded" /\ config' # config)
          => (ToggleAutoRebootSaved \/ \E np \in RepoPaths : change_repo_path(np))]_vars

\* An operation has read auto_reboot = TRUE, set by the user, and the
\* configuration is what the settings handlers made it.
C24_Witness ==
    /\ cfg_prog = "gated"
    /\ cfg_seen = "true"
    /\ config.auto_reboot
    /\ config.repo_path = "D:/repo"

\* C26: load_config returns the default configuration when the file is
\* missing or cannot be read as JSON and the stored configuration otherwise;
\* it raises nothing and leaves the file as it is.
C26_LoadConfigDefaults ==
    [][(cfg_pc = "start" /\ cfg_pc' = "loaded")
          => /\ config' = IF cfg_file.state = "ok" THEN cfg_file.data ELSE DEFAULT_CONFIG
             /\ ~cfg_raised'
             /\ cfg_file' = cfg_file]_vars

\* The program has started with a file that is not JSON and runs with the
\* defaults; the file is still there.
C26_Witness ==
    /\ cfg_pc = "loaded"
    /\ cfg_file.state = "corrupt"
    /\ config = DEFAULT_CONFIG
    /\ ~cfg_raised
    /\ cfg_seen = "none"

\* ---------------------------------- claims of download and online install

OnlineEnded(op) == n_pc = "idle" /\ n_op = op

\* A download that has ended after running its download command (n_ext is
\* what that command did): it got beyond update_progress(10) and the reset
\* that follows a failed ensure_module.
DownloadRan == OnlineEnded("download") /\ Len(n_progress) > 2

\* C25: in samsoftupdate0.x.py _create_update_manifest is called only when
\* the download command returned exit code 0; a download that failed or
\* timed out has written no manifest and has logged an error.
C25_ManifestAfterSuccess ==
    DownloadRan =>
        /\ manifest_calls > 0 => (n_ext.kind = "completed" /\ n_ext.returncode = 0)
        /\ (n_ext.kind # "completed" \/ n_ext.returncode # 0)
              => (manifest_calls = 0 /\ "ERROR" \in n_logs)

\* A download command that printed nothing on stderr and ended with exit
\* code 1: the error is logged and no manifest written.
C25_Witness ==
    /\ DownloadRan
    /\ n_ext.kind = "completed"
    /\ n_ext.returncode = 1
    /\ n_ext.stderr = <<>>
    /\ manifest_calls = 0
    /\ "ERROR" \in n_logs

\* C27: in the online install of samsoftupdate0.x.py a pre-check that timed
\* out or failed ends the operation with an error and is never reported as
\* "No updates available to install. System is up to date.".
C27_FailedPrecheckIsError ==
    (OnlineEnded("install")
        /\ precheck.kind # "none"
        /\ (precheck.kind # "completed" \/ precheck.returncode # 0))
      => ("UPTODATE" \notin n_logs /\ "ERROR" \in n_logs)

\* ------------------------------------------------- further claims of the scan

\* C28: in samsoftupdate0.x.py and samsofthdrv0.py a scan whose main command
\* reported 0x80240024 in its error text ends with the "up to date" line,
\* whatever the exit code and the standard output were; it is logged neither
\* as an error nor as a list of updates.
C28_NoUpdatesCodeIsUpToDate ==
    (ScanRanCommand /\ variant \in {"gated", "hdrv"} /\ Contains("0x80240024", result.err))
        => last_line = LogLine("OK", <<"System is up to date">>)

\* C30: in the 60-FPS variant pswindowsupdate_available becomes True only by
\* a start-up probe or an on-demand install that ended without an error: the
\* external call completed with exit code 0 and an empty error text.
C30_AvailableOnlyAfterSuccess ==
    [][(variant' = "fps" /\ ~pswindowsupdate_available /\ pswindowsupdate_available')
          => (ext'.kind = "completed" /\ result'.err = <<>> /\ result'.code = 0)]_vars

\* ------------------------------------- further claims of the offline install

\* C29: every value an offline install passes to update_progress is an
\* integer in 0..100, for every number of files (one file, and a number
\* that is not a multiple of the batch size, included), and the values
\* emitted before the end of the loop never exceed the 90 emitted after it.
C29_ProgressInRange ==
    \A k \in 1 .. Len(o_progress) :
        /\ o_progress[k] \in 0 .. 100
        /\ o_pc \in {"loop", "installing"} => o_progress[k] <= 90

\* The 60-FPS variant has gone through more files than one batch holds, the
\* last batch not a full one; its last batch value and the value after the
\* loop are both 90.
C29_Witness ==
    /\ variant = "fps"
    /\ o_pc = "reboot"
    /\ update_files > BatchSize
    /\ update_files % BatchSize # 0
    /\ o_progress[Len(o_progress)] = 90
    /\ o_progress[Len(o_progress) - 1] = 90

\* -------------------------------------- further claims of the gated variant

\* C31: in samsoftupdate0.x.py running_operation is True exactly when the
\* operation buttons are disabled, and it changes only in a step of the UI
\* thread that applies an "enable_buttons" or "disable_buttons" event.
C31_FlagMirrorsButtons ==
    /\ [](running_operation = ~buttons_enabled)
    /\ [][running_operation' # running_operation
            => /\ ui_pc = "poll"
               /\ message_queue # <<>>
               /\ QueueFront(message_queue).type \in {"enable_buttons", "disable_buttons"}
               /\ handled_n' # handled_n]_vars

\* The "disable_buttons" event of a running operation has been applied.
C31_Witness ==
    /\ running_operation
    /\ ~buttons_enabled
    /\ \E t \in Threads : pc[t] = "body"

\* The events of producer p still on message_queue, in queue order.
PendingEvents(p) ==
    LET FromP(e) == e.src = p
    IN  SelectSeq(message_queue, FromP)

\* C32: for every accepted operation "disable_buttons" is the first event its
\* wrapper puts and "enable_buttons" the last, whether the body returned or
\* raised; on the queue its log and progress events lie between the two, and
\* the UI thread applies "disable_buttons" before any and "enable_buttons"
\* after all of them.
C32_ButtonEventsBracketOperation ==
    /\ [](\A t \in Threads :
            LET s == PendingEvents(t)
            IN  \A i \in 1 .. Len(s) :
                  /\ s[i].type = "disable_buttons" => (i = 1 /\ s[i].n = 1)
                  /\ s[i].type = "enable_buttons"
                        => (i = Len(s) /\ s[i].n = sent_n[t] /\ pc[t] = "done"))
    /\ [][\A t \in Threads :
            /\ (pc[t] \in {"body", "except", "finally"} /\ sent_n'[t] # sent_n[t])
                  => /\ sent_n[t] >= 1
                     /\ message_queue'[Len(message_queue')].type = "enable_buttons"
                           <=> pc[t] = "finally"
            /\ (pc[t] = "disable" /\ pc'[t] # "disable")
                  => /\ sent_n[t] = 0
                     /\ Len(message_queue') = Len(message_queue) + 1
                     /\ message_queue'[Len(message_queue')].type = "disable_buttons"
            /\ (pc[t] \in {"body", "except"} /\ pc'[t] # pc[t])
                  => pc'[t] \in {"except", "finally"}
            /\ (pc[t] = "finally" /\ pc'[t] # "finally")
                  => /\ pc'[t] = "done"
                     /\ message_queue'[Len(message_queue')].type = "enable_buttons"
                     /\ message_queue'[Len(message_queue')].src = t
            /\ (handled_n'[t] # handled_n[t] /\ sent_n[t] > 1)
                  => LET ev == QueueFront(message_queue)
                     IN  /\ ev.type = "disable_buttons" <=> handled_n[t] = 0
                         /\ ev.type = "enable_buttons" <=> ev.n = sent_n[t] /\ pc[t] = "done"
                         /\ handled_n'[t] = handled_n[t] + 1]_vars

\* C32 witness: an operation whose body raised has put all its events; its
\* "disable_buttons" and a later event have been applied, while its
\* "enable_buttons" is still queued.
C32_Witness ==
    \E t \in Threads :
        /\ pc[t] = "done"
        /\ raised[t]
        /\ handled_n[t] >= 2
        /\ PendingEvents(t) # <<>>

\* C33 (as claimed): once the "disable_buttons" event of an operation has been
\* applied, the controls are disabled and running_operation is True for as
\* long as that operation's body is executing, and only that operation's own
\* "enable_buttons" event re-enables them.
C33_DisabledWhileBodyRuns ==
    /\ [](\A t \in Threads :
            (pc[t] = "body" /\ handled_n[t] >= 1)
                => (running_operation /\ ~buttons_enabled))
    /\ [][\A t \in Threads :
            (pc[t] = "body" /\ handled_n[t] >= 1
               /\ running_operation /\ ~running_operation')
                => QueueFront(message_queue).src = t]_vars

\* -------------------------------------- further claims of the 60-FPS variant

\* C34 (as claimed): every batch of log lines the render tick drains is
\* recorded in the log buffer whatever the rendering policy, and a windowed
\* redraw shows the most recent lines received, those already shown under the
\* immediate policy included.
C34_BufferRecordsEveryLine ==
    [][(fps_pc = "log_phase" /\ fps_pc' = "ui_phase" /\ log_batch # <<>>)
         => /\ log_buffer' = DequeExtend(log_buffer, log_batch)
            /\ perf_mode_var
                 => fps_log_text' = LastK(fps_log_text \o log_batch, VisibleLines)]_vars

\* C35 (as claimed): in the 60-FPS variant, once stop_event is set during an
\* offline install, the operation starts no further package installation and
\* does not issue the reboot command.  (With stop_event set before the first
\* file no file is installed and success_count stays 0, so a step that is
\* excluded here belongs to an install that was under way when it was set.)
C35_NoCommandAfterStop ==
    [][(variant = "fps" /\ stop_event /\ o_pc # "idle")
         => /\ ~(o_pc # "installing" /\ o_pc' = "installing")
            /\ ~(~reboot_issued /\ reboot_issued')]_vars

\* C36: every invocation of process_message_queue schedules exactly one next
\* invocation, whether it ended on an empty queue or because a handler
\* raised: at any time exactly one invocation is running or scheduled, and a
\* scheduled one can start.
C36_PollingGoesOn ==
    /\ [](pending_polls + (IF ui_pc = "poll" THEN 1 ELSE 0) = 1)
    /\ [][(ui_pc = "poll" /\ ui_pc' # "poll")
            => pending_polls' = pending_polls + 1]_vars
    /\ [](ui_pc = "idle" => ENABLED PollStart)

\* C36 witness: the only operation started has ended by an exception and all
\* its events were taken from the queue, but the log shows no line: the
\* handler of its error line raised; one poll is scheduled.
C36_Witness ==
    /\ requests = 1
    /\ pc[1] = "done"
    /\ raised[1]
    /\ message_queue = <<>>
    /\ handled_n[1] = sent_n[1]
    /\ log_text = 0
    /\ ui_pc = "idle"
    /\ pending_polls = 1

\* ------------------------------------------------------ claims of program.py

\* C37: in program.py the "Install Updates" button is disabled initially; it
\* becomes enabled only at the end of a check whose command returned
\* non-empty output and no error, every install whose command returned no
\* error ends by disabling it, and no other step of a check or an install
\* (failed ensure_module, error, empty output, failed install) changes it.
C37_InstallButton ==
    /\ [](p_started = 0 => install_btn = "disabled")
    /\ [](\A t \in ProgThreads :
            p_pc[t] = "box_info" => (p_kind[t] = "install" /\ p_out[t].err = <<>>))
    /\ [][\A t \in ProgThreads :
            /\ (p_kind[t] = "install" /\ p_pc[t] = "command" /\ p_pc'[t] \notin {"command", "dead"})
                  => (p_pc'[t] = "box_info" <=> p_out'[t].err = <<>>)
            /\ p_pc'[t] # p_pc[t]
                  => IF /\ p_kind[t] = "check" /\ p_pc[t] = "command" /\ p_pc'[t] = "done"
                        /\ p_out'[t].out # <<>> /\ p_out'[t].err = <<>>
                     THEN install_btn' = "normal"
                     ELSE IF p_pc[t] = "box_info"
                     THEN install_btn' = "disabled"
                     ELSE install_btn' = install_btn]_vars

\* C37 witness: a check found updates, an install that followed it completed
\* without error, and a later check ended with an error; the button is
\* disabled.
C37_Witness ==
    /\ install_btn = "disabled"
    /\ \E t, u, w \in ProgThreads :
          /\ t < u /\ u < w
          /\ p_kind[t] = "check" /\ p_pc[t] = "done"
          /\ p_out[t].out # <<>> /\ p_out[t].err = <<>>
          /\ p_kind[u] = "install" /\ p_pc[u] = "done" /\ p_out[u].err = <<>>
          /\ p_kind[w] = "check" /\ p_pc[w] = "done" /\ p_out[w].err # <<>>

=============================================================================
